---- MODULE Spec2Model ----
(***************************************************************************)
(* Subscription service: domain model (Subscription, DatePeriod,           *)
(* CostSummary), utilities (month-year parsing, pagination, validation),   *)
(* the subscription service and its PostgreSQL repository.                 *)
(***************************************************************************)
EXTENDS Integers, Sequences, FiniteSets, TLC

VARIABLES
    table,      \* rows of the subscriptions table: id -> Subscription
    nextID,     \* the next identifier uuid.New() hands out
    now,        \* the wall clock read by time.Now()
    pc,         \* per client: where its service call stands
    local,      \* per client: the locals of the service call in progress
    ret,        \* per client: the response of the call that just returned
    clients,    \* the clients that issue service calls
    call,       \* the last call of a pure helper: function, inputs, output
    app,        \* the application process: its goroutines, HTTP server and pool
    costSummary \* a CostSummary object and the last method called on it

vars == <<table, nextID, now, pc, local, ret, clients, call, app, costSummary>>

----------------------------------------------------------------------------
(* Bounds of the model *)

\* instants distinguished inside one calendar month (first .. last)
TicksPerMonth == 3
\* highest value of the wall clock
MaxNow == 1
\* identifiers uuid.New() can hand out in one run
MaxIDs == 2

\* program constants
MaxServiceNameLen == 255
MaxPrice == 1000000
DefaultLimit == 20
MaxLimit == 100
MinYear == 2000
MaxYear == 2100

----------------------------------------------------------------------------
(* time.Time: an instant is a number; a month holds TicksPerMonth instants, *)
(* the first one being 00:00:00 of day 1 and the last one the nanosecond    *)
(* before the next month starts.                                            *)

NoTime == -1            \* a nil *time.Time

Date(year, month, tick) == (year * 12 + (month - 1)) * TicksPerMonth + tick
Year(t) == (t \div TicksPerMonth) \div 12
Month(t) == ((t \div TicksPerMonth) % 12) + 1
Before(a, b) == a < b
After(a, b) == a > b

StartOfMonth(t) == Date(Year(t), Month(t), 0)
EndOfMonthFirstInstant(t) == Date(Year(t), Month(t), 0)
EndOfMonthNextStart(t) == Date(Year(t), Month(t) + 1, 0)

EndOfMonth(t) == Date(Year(t), Month(t) + 1, 0) - 1

----------------------------------------------------------------------------
(* Strings are sequences of characters. *)

Str(c, n) == [i \in 1..n |-> c]

RECURSIVE TrimLeft(_)
TrimLeft(s) == IF s # <<>> /\ Head(s) = " " THEN TrimLeft(Tail(s)) ELSE s

RECURSIVE TrimRight(_)
TrimRight(s) ==
    IF s # <<>> /\ s[Len(s)] = " " THEN TrimRight(SubSeq(s, 1, Len(s) - 1)) ELSE s

TrimSpace(s) == TrimRight(TrimLeft(s))
NormalizeString(s) == TrimSpace(s)

----------------------------------------------------------------------------
(* Errors: nil, an *apperror.AppError with its code, or an untyped error   *)
(* built by fmt.Errorf / errors.New with its text.                         *)

NoErr == [kind |-> "nil", code |-> "", detail |-> <<>>]
AppError(code) == [kind |-> "AppError", code |-> code, detail |-> <<>>]
PlainError(text) == [kind |-> "error", code |-> text, detail |-> <<>>]

InvalidInput == AppError("INVALID_INPUT")
SubscriptionNotFound == AppError("SUBSCRIPTION_NOT_FOUND")
InvalidSubscriptionData == AppError("INVALID_SUBSCRIPTION_DATA")
\* the detail of InvalidDateFormat is the rejected string
InvalidDateFormat(value) == [AppError("INVALID_DATE_FORMAT") EXCEPT !.detail = value]
InvalidDateRange == AppError("INVALID_DATE_RANGE")
InvalidUserID == AppError("INVALID_USER_ID")
InvalidPrice == AppError("INVALID_PRICE")
InvalidServiceName == AppError("INVALID_SERVICE_NAME")
InvalidPaginationParams == AppError("INVALID_PAGINATION_PARAMS")

----------------------------------------------------------------------------
(* models.Subscription *)

NilUUID == 0

NewSubscription(id, serviceName, price, userID, startDate, t) ==
    [id |-> id, serviceName |-> serviceName, price |-> price, userID |-> userID,
     startDate |-> startDate, endDate |-> NoTime, createdAt |-> t, updatedAt |-> t]

SetID(s, id) == [s EXCEPT !.id = id]
SetServiceName(s, serviceName, t) == [s EXCEPT !.serviceName = serviceName, !.updatedAt = t]
SetPrice(s, price, t) == [s EXCEPT !.price = price, !.updatedAt = t]
SetUserID(s, userID, t) == [s EXCEPT !.userID = userID, !.updatedAt = t]

SetStartDate(s, startDate, t) == [s EXCEPT !.startDate = startDate, !.updatedAt = t]
SetEndDate(s, endDate, t) == [s EXCEPT !.endDate = endDate, !.updatedAt = t]
SetCreatedAt(s, createdAt) == [s EXCEPT !.createdAt = createdAt]
SetUpdatedAt(s, updatedAt) == [s EXCEPT !.updatedAt = updatedAt]

IsActiveExclusiveEnd(s, date) ==
    IF Before(date, s.startDate) THEN FALSE
    ELSE IF s.endDate # NoTime /\ ~Before(date, s.endDate) THEN FALSE
    ELSE TRUE

IsActive(s, date) ==
    IF Before(date, s.startDate) THEN FALSE
    ELSE IF s.endDate # NoTime /\ After(date, s.endDate) THEN FALSE
    ELSE TRUE

IsExpired(s, date) ==
    IF s.endDate = NoTime THEN FALSE ELSE After(date, s.endDate)

CostNoShortCircuit(s, from, to) ==
    LET start == IF After(from, s.startDate) THEN from ELSE s.startDate
        end == IF s.endDate # NoTime /\ Before(s.endDate, to) THEN s.endDate ELSE to
        months == (Year(end) * 12 + Month(end) - 1) - (Year(start) * 12 + Month(start) - 1) + 1
    IN  IF After(start, end) THEN 0
        ELSE IF months <= 0 THEN 0
        ELSE s.price * months

CostExclusiveMonths(s, from, to) ==
    IF ~IsActive(s, from) /\ ~IsActive(s, to) THEN 0
    ELSE
        LET start == IF After(from, s.startDate) THEN from ELSE s.startDate
            end == IF s.endDate # NoTime /\ Before(s.endDate, to) THEN s.endDate ELSE to
            months == (Year(end) * 12 + Month(end) - 1) - (Year(start) * 12 + Month(start) - 1)
        IN  IF After(start, end) THEN 0
            ELSE IF months <= 0 THEN 0
            ELSE s.price * months

CalculateCostForPeriod(s, from, to) ==
    IF ~IsActive(s, from) /\ ~IsActive(s, to) THEN 0
    ELSE
        LET start == IF After(from, s.startDate) THEN from ELSE s.startDate
            end == IF s.endDate # NoTime /\ Before(s.endDate, to) THEN s.endDate ELSE to
            startMonth == Year(start) * 12 + Month(start) - 1
            endMonth == Year(end) * 12 + Month(end) - 1
            months == endMonth - startMonth + 1
        IN  IF After(start, end) THEN 0
            ELSE IF months <= 0 THEN 0
            ELSE s.price * months

ValidatePriceFirst(s) ==
    IF s.price <= 0 THEN PlainError("price must be greater than zero")
    ELSE IF s.serviceName = <<>> THEN PlainError("service name cannot be empty")
    ELSE IF s.userID = NilUUID THEN PlainError("user ID cannot be empty")
    ELSE IF s.endDate # NoTime /\ Before(s.endDate, s.startDate)
        THEN PlainError("end date cannot be before start date")
    ELSE NoErr

\* Subscription.Validate: nil or the text of the first failing check
Validate(s) ==
    IF s.serviceName = <<>> THEN PlainError("service name cannot be empty")
    ELSE IF s.price <= 0 THEN PlainError("price must be greater than zero")
    ELSE IF s.userID = NilUUID THEN PlainError("user ID cannot be empty")
    ELSE IF s.endDate # NoTime /\ Before(s.endDate, s.startDate)
        THEN PlainError("end date cannot be before start date")
    ELSE NoErr

----------------------------------------------------------------------------
(* utils: pagination *)

PaginationNoClamp(limit, offset) ==
    IF limit < 0 THEN [limit |-> 0, offset |-> 0, err |-> InvalidPaginationParams]
    ELSE IF offset < 0 THEN [limit |-> 0, offset |-> 0, err |-> InvalidPaginationParams]
    ELSE [limit |-> IF limit = 0 THEN DefaultLimit ELSE limit,
          offset |-> offset, err |-> NoErr]

ValidatePagination(limit, offset) ==
    IF limit < 0 THEN [limit |-> 0, offset |-> 0, err |-> InvalidPaginationParams]
    ELSE IF offset < 0 THEN [limit |-> 0, offset |-> 0, err |-> InvalidPaginationParams]
    ELSE
        LET l1 == IF limit = 0 THEN DefaultLimit ELSE limit
            l2 == IF l1 > MaxLimit THEN MaxLimit ELSE l1
        IN  [limit |-> l2, offset |-> offset, err |-> NoErr]

----------------------------------------------------------------------------
(* utils: "MM-YYYY" strings. A date string is a sequence of characters:    *)
(* the digits 0..9 and Dash.                                               *)

Dash == 10
IsDigit(c) == c \in 0..9

RECURSIVE Number(_)
Number(s) == IF s = <<>> THEN 0 ELSE Number(SubSeq(s, 1, Len(s) - 1)) * 10 + s[Len(s)]

\* strconv.Atoi on an unsigned decimal
Atoi(s) ==
    IF s # <<>> /\ \A i \in 1..Len(s) : IsDigit(s[i])
    THEN [val |-> Number(s), ok |-> TRUE]
    ELSE [val |-> 0, ok |-> FALSE]

ParseMonthYear(dateStr) ==
    LET dashes == {i \in 1..Len(dateStr) : dateStr[i] = Dash}
        bad == [t |-> 0, err |-> InvalidDateFormat(dateStr)]
    IN  IF dateStr = <<>> THEN bad
        ELSE IF Cardinality(dashes) # 1 THEN bad
        ELSE
            LET d == CHOOSE i \in dashes : TRUE
                month == Atoi(SubSeq(dateStr, 1, d - 1))
                year == Atoi(SubSeq(dateStr, d + 1, Len(dateStr)))
            IN  IF ~month.ok \/ month.val < 1 \/ month.val > 12 THEN bad
                ELSE IF ~year.ok \/ year.val < MinYear \/ year.val > MaxYear THEN bad
                ELSE [t |-> Date(year.val, month.val, 0), err |-> NoErr]

\* time.Format with the layout "01-2006"
FormatMonthYear(t) ==
    <<Month(t) \div 10, Month(t) % 10, Dash,
      Year(t) \div 1000, (Year(t) \div 100) % 10, (Year(t) \div 10) % 10, Year(t) % 10>>

ValidateDateRange(startDate, endDate) ==
    IF startDate # NoTime /\ endDate # NoTime /\ Before(endDate, startDate)
    THEN InvalidDateRange ELSE NoErr

ParseDateRange(startDateStr, endDateStr) ==
    LET s == ParseMonthYear(startDateStr)
        e == ParseMonthYear(endDateStr)
        bad(err) == [start |-> NoTime, end |-> NoTime, err |-> err]
    IN  IF startDateStr # <<>> /\ s.err # NoErr THEN bad(s.err)
        ELSE IF endDateStr # <<>> /\ e.err # NoErr THEN bad(e.err)
        ELSE
            LET startDate == IF startDateStr # <<>> THEN StartOfMonth(s.t) ELSE NoTime
                endDate == IF endDateStr # <<>> THEN EndOfMonth(e.t) ELSE NoTime
            IN  IF ValidateDateRange(startDate, endDate) # NoErr
                THEN bad(ValidateDateRange(startDate, endDate))
                ELSE [start |-> startDate, end |-> endDate, err |-> NoErr]

ValidateServiceName(serviceName) ==
    IF TrimSpace(serviceName) = <<>> THEN InvalidServiceName
    ELSE IF Len(serviceName) > MaxServiceNameLen THEN InvalidInput
    ELSE NoErr

ValidatePrice(price) ==
    IF price <= 0 THEN InvalidPrice
    ELSE IF price > MaxPrice THEN InvalidInput
    ELSE NoErr

----------------------------------------------------------------------------
(* models.DatePeriod, models.SubscriptionFilter, models.CostSummary.        *)
(* A nil pointer is the empty sequence, a pointer to v is <<v>>.            *)

NewDatePeriod(from, to) == [from |-> from, to |-> to]

DatePeriodValidateStrict(dp) ==
    IF ~After(dp.to, dp.from) THEN PlainError("end date cannot be before start date")
    ELSE NoErr

DatePeriodValidate(dp) ==
    IF Before(dp.to, dp.from) THEN PlainError("end date cannot be before start date")
    ELSE NoErr

SetFrom(dp, from) == [dp EXCEPT !.from = from]
SetTo(dp, to) == [dp EXCEPT !.to = to]

\* DatePeriod.Contains: !date.Before(from) && !date.After(to)
DatePeriodContains(dp, date) == ~Before(date, dp.from) /\ ~After(date, dp.to)

OverlapsInclusive(dp, other) == ~After(dp.from, other.to) /\ ~Before(dp.to, other.from)
Overlaps(dp, other) == Before(dp.from, other.to) /\ After(dp.to, other.from)

\* the largest time.Duration (2^63 - 1 nanoseconds, a little over 3507 months)
MaxDuration == 3507 * TicksPerMonth
\* time.Time.Sub: the difference, held within the range of time.Duration
Sub(t, u) ==
    IF t - u > MaxDuration THEN MaxDuration
    ELSE IF t - u < -MaxDuration THEN -MaxDuration
    ELSE t - u
Duration(dp) == Sub(dp.to, dp.from)

NewSubscriptionFilter ==
    [userID |-> <<>>, serviceName |-> <<>>, startDate |-> <<>>, endDate |-> <<>>]
HasUserID(f) == f.userID # <<>>
HasServiceName(f) == f.serviceName # <<>> /\ f.serviceName[1] # <<>>
HasDateRange(f) == f.startDate # <<>> \/ f.endDate # <<>>

NewCostSummary(period) == [totalCost |-> 0, period |-> period, subscriptions |-> <<>>]
SetTotalCost(cs, totalCost) == [cs EXCEPT !.totalCost = totalCost]
SetPeriodKeepsTotal(cs, period) == [cs EXCEPT !.period = period]

SetPeriod(cs, period) == [cs EXCEPT !.period = period, !.totalCost = 0]
SetSubscriptions(cs, subscriptions) == [cs EXCEPT !.subscriptions = subscriptions]
AddSubscription(cs, sub) == [cs EXCEPT !.subscriptions = Append(@, sub)]

RECURSIVE SumCosts(_, _)
SumCosts(subs, period) ==
    IF subs = <<>> THEN 0
    ELSE CalculateCostForPeriod(Head(subs), period.from, period.to) + SumCosts(Tail(subs), period)

\* CostSummary.Calculate: the summary with its total stored
Calculate(cs) == [cs EXCEPT !.totalCost = SumCosts(cs.subscriptions, cs.period)]

----------------------------------------------------------------------------
(* repository: the SQL statements over the subscriptions table *)

\* strings.Contains, the match of ILIKE '%..%' on lower-case text
Contains(s, sub) ==
    \E i \in 0..(Len(s) - Len(sub)) : SubSeq(s, i + 1, i + Len(sub)) = sub

scanSubscriptionNoRestore(row, freshID, t) ==
    LET s0 == NewSubscription(freshID, row.serviceName, row.price, row.userID, row.startDate, t)
        s1 == SetID(s0, row.id)
        s2 == SetEndDate(s1, row.endDate, t)
    IN  SetCreatedAt(s2, row.createdAt)

\* rows.Scan into id, serviceName, ..., updatedAt, then the rebuild

scanSubscription(row, freshID, t) ==
    LET s0 == NewSubscription(freshID, row.serviceName, row.price, row.userID, row.startDate, t)
        s1 == SetID(s0, row.id)
        s2 == SetEndDate(s1, row.endDate, t)
        s3 == SetCreatedAt(s2, row.createdAt)
    IN  SetUpdatedAt(s3, row.updatedAt)

\* INSERT INTO subscriptions
RepoCreate(tbl, sub) ==
    [table |-> [i \in DOMAIN tbl \cup {sub.id} |-> IF i = sub.id THEN sub ELSE tbl[i]],
     err |-> NoErr]

\* SELECT ... WHERE id = $1
RepoGetByID(tbl, id, freshID, t) ==
    IF id \in DOMAIN tbl THEN <<scanSubscription(tbl[id], freshID, t)>> ELSE <<>>

RepoUpdateUpserts(tbl, sub) ==
    [table |-> [i \in DOMAIN tbl \cup {sub.id} |-> IF i = sub.id THEN sub ELSE tbl[i]],
     err |-> NoErr]

RepoUpdateKeepsEndDate(tbl, sub) ==
    IF sub.id \in DOMAIN tbl
    THEN [table |-> [tbl EXCEPT ![sub.id] =
                        [@ EXCEPT !.serviceName = sub.serviceName, !.price = sub.price,
                                  !.userID = sub.userID, !.startDate = sub.startDate,
                                  !.updatedAt = sub.updatedAt]],
          err |-> NoErr]
    ELSE [table |-> tbl, err |-> PlainError("subscription not found")]

RepoUpdateStampsCreatedAt(tbl, sub) ==
    IF sub.id \in DOMAIN tbl
    THEN [table |-> [tbl EXCEPT ![sub.id] =
                        [@ EXCEPT !.serviceName = sub.serviceName, !.price = sub.price,
                                  !.userID = sub.userID, !.startDate = sub.startDate,
                                  !.endDate = sub.endDate, !.createdAt = sub.updatedAt,
                                  !.updatedAt = sub.updatedAt]],
          err |-> NoErr]
    ELSE [table |-> tbl, err |-> PlainError("subscription not found")]

\* UPDATE subscriptions SET ... WHERE id = $1
RepoUpdate(tbl, sub) ==
    IF sub.id \in DOMAIN tbl
    THEN [table |-> [tbl EXCEPT ![sub.id] =
                        [@ EXCEPT !.serviceName = sub.serviceName, !.price = sub.price,
                                  !.userID = sub.userID, !.startDate = sub.startDate,
                                  !.endDate = sub.endDate, !.updatedAt = sub.updatedAt]],
          err |-> NoErr]
    ELSE [table |-> tbl, err |-> PlainError("subscription not found")]

\* DELETE FROM subscriptions WHERE id = $1
RepoDelete(tbl, id) ==
    IF id \in DOMAIN tbl
    THEN [table |-> [i \in DOMAIN tbl \ {id} |-> tbl[i]], err |-> NoErr]
    ELSE [table |-> tbl, err |-> PlainError("subscription not found")]

\* SELECT EXISTS(SELECT 1 FROM subscriptions WHERE id = $1)
RepoExists(tbl, id) == id \in DOMAIN tbl

RECURSIVE SumPrice(_, _)
SumPrice(tbl, ids) ==
    IF ids = {} THEN 0
    ELSE LET i == CHOOSE x \in ids : TRUE IN tbl[i].price + SumPrice(tbl, ids \ {i})

\* SELECT COALESCE(SUM(price), 0) ... WHERE start_date <= $1 AND
\* (end_date IS NULL OR end_date >= $2) [AND user_id = $3] [AND service_name ILIKE $4]
GetTotalCostForPeriod(tbl, filter, period) ==
    LET matching == {i \in DOMAIN tbl :
            /\ tbl[i].startDate <= period.to
            /\ (tbl[i].endDate = NoTime \/ tbl[i].endDate >= period.from)
            /\ (HasUserID(filter) => tbl[i].userID = filter.userID[1])
            /\ (HasServiceName(filter) => Contains(tbl[i].serviceName, filter.serviceName[1]))}
    IN  SumPrice(tbl, matching)

----------------------------------------------------------------------------
(* repository: the text of the queries. A query is a sequence of tokens: a  *)
(* piece of fixed SQL text, a positional placeholder $n, or a value written *)
(* into the text.                                                           *)

Text(t) == [kind |-> "text", text |-> t, n |-> 0]
Placeholder(n) == [kind |-> "placeholder", text |-> "$", n |-> n]

\* strings.Join(conditions, " AND ")
RECURSIVE JoinAnd(_)
JoinAnd(conditions) ==
    IF conditions = <<>> THEN <<>>
    ELSE IF Len(conditions) = 1 THEN conditions[1]
    ELSE conditions[1] \o <<Text(" AND ")>> \o JoinAnd(Tail(conditions))

\* the three locals of a builder: conditions, args, argIndex
Builder(args, argIndex) == [conditions |-> <<>>, args |-> args, argIndex |-> argIndex]

\* conditions = append(conditions, fmt.Sprintf(before + "$%d" + after, argIndex));
\* args = append(args, value); argIndex++
AddCondition(b, before, after, value) ==
    [conditions |-> Append(b.conditions, <<Text(before), Placeholder(b.argIndex), Text(after)>>),
     args |-> Append(b.args, value),
     argIndex |-> b.argIndex + 1]

\* the argument of ILIKE: "%" + name + "%"
LikePattern(name) == <<"%">> \o name \o <<"%">>

FilterConditionsSameIndex(b, filter) ==
    LET b1 == IF HasUserID(filter)
              THEN [AddCondition(b, "user_id = ", "", filter.userID[1]) EXCEPT !.argIndex = b.argIndex]
              ELSE b
    IN  IF HasServiceName(filter)
        THEN AddCondition(b1, "service_name ILIKE ", "", LikePattern(filter.serviceName[1]))
        ELSE b1

\* the userID and serviceName conditions, common to the three queries
FilterConditions(b, filter) ==
    LET b1 == IF HasUserID(filter)
              THEN AddCondition(b, "user_id = ", "", filter.userID[1]) ELSE b
    IN  IF HasServiceName(filter)
        THEN AddCondition(b1, "service_name ILIKE ", "", LikePattern(filter.serviceName[1]))
        ELSE b1

\* the startDate and endDate conditions of buildFilterQuery and buildCountQuery
DateConditions(b, filter) ==
    IF ~HasDateRange(filter) THEN b
    ELSE
        LET b1 == IF filter.startDate # <<>>
                  THEN AddCondition(b, "start_date >= ", "", filter.startDate[1]) ELSE b
        IN  IF filter.endDate # <<>>
            THEN AddCondition(b1, "(end_date IS NULL OR end_date <= ", ")", filter.endDate[1])
            ELSE b1

buildFilterQuery(filter, limit, offset) ==
    LET b == DateConditions(FilterConditions(Builder(<<>>, 1), filter), filter)
        where == IF Len(b.conditions) > 0 THEN <<Text(" WHERE ")>> \o JoinAnd(b.conditions) ELSE <<>>
    IN  [query |-> <<Text("SELECT ... FROM subscriptions")>> \o where
                   \o <<Text(" ORDER BY created_at DESC"),
                        Text(" LIMIT "), Placeholder(b.argIndex),
                        Text(" OFFSET "), Placeholder(b.argIndex + 1)>>,
         args |-> b.args \o <<limit, offset>>]

buildCountQuery(filter) ==
    LET b == DateConditions(FilterConditions(Builder(<<>>, 1), filter), filter)
        where == IF Len(b.conditions) > 0 THEN <<Text(" WHERE ")>> \o JoinAnd(b.conditions) ELSE <<>>
    IN  [query |-> <<Text("SELECT COUNT(*) FROM subscriptions")>> \o where,
         args |-> b.args]

\* the query GetTotalCostForPeriod runs
totalCostQuery(filter, period) ==
    LET b == FilterConditions(Builder(<<period.to, period.from>>, 3), filter)
        more == IF Len(b.conditions) > 0 THEN <<Text(" AND ")>> \o JoinAnd(b.conditions) ELSE <<>>
    IN  [query |-> <<Text("SELECT COALESCE(SUM(price), 0) FROM subscriptions WHERE start_date <= "),
                     Placeholder(1),
                     Text(" AND (end_date IS NULL OR end_date >= "), Placeholder(2), Text(")")>>
                   \o more,
         args |-> b.args]

----------------------------------------------------------------------------
(* service: what each subscriptionService method computes. An outcome holds *)
(* the returned entity (nil is <<>>), the returned error, the repository    *)
(* methods called so far and, for a write, the table it leaves.             *)

validateCreateInput(serviceName, price, userID) ==
    IF ValidateServiceName(serviceName) # NoErr THEN ValidateServiceName(serviceName)
    ELSE IF ValidatePrice(price) # NoErr THEN ValidatePrice(price)
    ELSE IF userID = NilUUID THEN InvalidUserID
    ELSE NoErr

validateUpdateNameOnly(serviceName, price) ==
    IF serviceName # <<>> /\ serviceName[1] # <<>> /\ ValidateServiceName(serviceName[1]) # NoErr
    THEN ValidateServiceName(serviceName[1])
    ELSE NoErr

validateUpdateInput(serviceName, price) ==
    IF serviceName # <<>> /\ serviceName[1] # <<>> /\ ValidateServiceName(serviceName[1]) # NoErr
    THEN ValidateServiceName(serviceName[1])
    ELSE IF price # <<>> /\ ValidatePrice(price[1]) # NoErr THEN ValidatePrice(price[1])
    ELSE NoErr

CreateOutcome(tbl, serviceName, price, userID, startDate, endDate, freshID, t) ==
    LET fail(e, calls) == [sub |-> <<>>, err |-> e, calls |-> calls, table |-> tbl]
        e1 == validateCreateInput(serviceName, price, userID)
        st == ParseMonthYear(startDate)
        startTime == StartOfMonth(st.t)
        sub0 == NewSubscription(freshID, NormalizeString(serviceName), price, userID, startTime, t)
        hasEnd == endDate # <<>> /\ endDate[1] # <<>>
        en == ParseMonthYear(endDate[1])
        endTime == EndOfMonth(en.t)
        sub1 == IF hasEnd THEN SetEndDate(sub0, endTime, t) ELSE sub0
    IN  IF e1 # NoErr THEN fail(e1, <<>>)
        ELSE IF st.err # NoErr THEN fail(st.err, <<>>)
        ELSE IF hasEnd /\ en.err # NoErr THEN fail(en.err, <<>>)
        ELSE IF hasEnd /\ ValidateDateRange(startTime, endTime) # NoErr
            THEN fail(ValidateDateRange(startTime, endTime), <<>>)
        ELSE IF Validate(sub1) # NoErr THEN fail(InvalidSubscriptionData, <<>>)
        ELSE
            LET w == RepoCreate(tbl, sub1)
            IN  IF w.err # NoErr THEN fail(w.err, <<"Create">>)
                ELSE [sub |-> <<sub1>>, err |-> NoErr, calls |-> <<"Create">>, table |-> w.table]

GetByIDOutcome(tbl, id, freshID, t) ==
    IF id = NilUUID THEN [sub |-> <<>>, err |-> InvalidInput, calls |-> <<>>]
    ELSE IF RepoGetByID(tbl, id, freshID, t) = <<>>
        THEN [sub |-> <<>>, err |-> SubscriptionNotFound, calls |-> <<"GetByID">>]
    ELSE [sub |-> RepoGetByID(tbl, id, freshID, t), err |-> NoErr, calls |-> <<"GetByID">>]

HasChangesAlways(nameChanges, priceChanges, startGiven, endGiven) == TRUE

\* hasChanges of UpdateSubscription, from what each of its four blocks did
HasChanges(nameChanges, priceChanges, startGiven, endGiven) ==
    nameChanges \/ priceChanges \/ startGiven \/ endGiven

\* UpdateSubscription up to its repo.Update call: write tells whether that call follows
UpdatePrepare(tbl, id, serviceName, price, startDate, endDate, freshID, t) ==
    LET got == GetByIDOutcome(tbl, id, freshID, t)
        fail(e) == [sub |-> <<>>, err |-> e, calls |-> got.calls, write |-> FALSE]
        e1 == validateUpdateInput(serviceName, price)
        subscription == got.sub[1]
        nameGiven == serviceName # <<>> /\ serviceName[1] # <<>>
        normalized == NormalizeString(serviceName[1])
        nameChanges == nameGiven /\ normalized # subscription.serviceName
        s1 == IF nameChanges THEN SetServiceName(subscription, normalized, t) ELSE subscription
        priceChanges == price # <<>> /\ price[1] # s1.price
        s2 == IF priceChanges THEN SetPrice(s1, price[1], t) ELSE s1
        startGiven == startDate # <<>> /\ startDate[1] # <<>>
        st == ParseMonthYear(startDate[1])
        s3 == IF startGiven THEN SetStartDate(s2, StartOfMonth(st.t), t) ELSE s2
        endGiven == endDate # <<>>
        endCleared == endGiven /\ endDate[1] = <<>>
        en == ParseMonthYear(endDate[1])
        s4 == IF endCleared THEN SetEndDate(s3, NoTime, t)
              ELSE IF endGiven THEN SetEndDate(s3, EndOfMonth(en.t), t)
              ELSE s3
        hasChanges == HasChanges(nameChanges, priceChanges, startGiven, endGiven)
    IN  IF got.err # NoErr THEN fail(got.err)
        ELSE IF e1 # NoErr THEN fail(e1)
        ELSE IF startGiven /\ st.err # NoErr THEN fail(st.err)
        ELSE IF endGiven /\ ~endCleared /\ en.err # NoErr THEN fail(en.err)
        ELSE IF ~hasChanges
            THEN [sub |-> <<s4>>, err |-> NoErr, calls |-> got.calls, write |-> FALSE]
        ELSE IF Validate(s4) # NoErr THEN fail(InvalidSubscriptionData)
        ELSE [sub |-> <<s4>>, err |-> NoErr, calls |-> got.calls, write |-> TRUE]

\* the repo.Update call of UpdateSubscription and its return
UpdateFinish(tbl, sub, calls) ==
    LET w == RepoUpdate(tbl, sub)
    IN  IF w.err # NoErr
        THEN [sub |-> <<>>, err |-> w.err, calls |-> Append(calls, "Update"), table |-> tbl]
        ELSE [sub |-> <<sub>>, err |-> NoErr, calls |-> Append(calls, "Update"), table |-> w.table]

DeletePrepareNoExists(tbl, id) ==
    IF id = NilUUID THEN [err |-> InvalidInput, calls |-> <<>>, write |-> FALSE]
    ELSE [err |-> NoErr, calls |-> <<>>, write |-> TRUE]

\* DeleteSubscription up to its repo.Delete call
DeletePrepare(tbl, id) ==
    IF id = NilUUID THEN [err |-> InvalidInput, calls |-> <<>>, write |-> FALSE]
    ELSE IF ~RepoExists(tbl, id)
        THEN [err |-> SubscriptionNotFound, calls |-> <<"Exists">>, write |-> FALSE]
    ELSE [err |-> NoErr, calls |-> <<"Exists">>, write |-> TRUE]

\* the repo.Delete call of DeleteSubscription and its return
DeleteFinish(tbl, id, calls) ==
    LET w == RepoDelete(tbl, id)
    IN  [err |-> w.err, calls |-> Append(calls, "Delete"), table |-> w.table]

CalculateTotalCostNoNilCheck(tbl, userID, serviceName, startDate, endDate) ==
    LET fail(e) == [summary |-> <<>>, err |-> e, calls |-> <<>>]
        r == ParseDateRange(startDate, endDate)
        period == NewDatePeriod(r.start, r.end)
        totalCost == GetTotalCostForPeriod(tbl, NewSubscriptionFilter, period)
    IN  IF r.err # NoErr THEN fail(r.err)
        ELSE IF DatePeriodValidate(period) # NoErr THEN fail(InvalidDateRange)
        ELSE [summary |-> <<SetTotalCost(NewCostSummary(period), totalCost)>>,
              err |-> NoErr, calls |-> <<"GetTotalCostForPeriod">>]

CalculateTotalCostOutcome(tbl, userID, serviceName, startDate, endDate) ==
    LET fail(e) == [summary |-> <<>>, err |-> e, calls |-> <<>>]
        r == ParseDateRange(startDate, endDate)
        period == NewDatePeriod(r.start, r.end)
        f0 == NewSubscriptionFilter
        f1 == IF userID # <<>> THEN [f0 EXCEPT !.userID = userID] ELSE f0
        f2 == IF serviceName # <<>> /\ serviceName[1] # <<>>
              THEN [f1 EXCEPT !.serviceName = <<NormalizeString(serviceName[1])>>] ELSE f1
        totalCost == GetTotalCostForPeriod(tbl, f2, period)
    IN  IF r.err # NoErr THEN fail(r.err)
        ELSE IF r.start = NoTime \/ r.end = NoTime THEN fail(InvalidInput)
        ELSE IF DatePeriodValidate(period) # NoErr THEN fail(InvalidDateRange)
        ELSE [summary |-> <<SetTotalCost(NewCostSummary(period), totalCost)>>,
              err |-> NoErr, calls |-> <<"GetTotalCostForPeriod">>]

----------------------------------------------------------------------------
(* The application process. App.Run starts Server.Start in a goroutine and   *)
(* waits in a select for an error of the server or for SIGINT/SIGTERM; the   *)
(* server goroutine (startWithGracefulShutdown) waits for the same signal on *)
(* a channel of its own. http.Server.Shutdown stops accepting, waits until   *)
(* no request is in flight and gives up when its context's timeout expires.  *)

\* requests that can be in flight at once
MaxInflight == 2
\* ticks of the clock that make up the shutdown timeout
GraceTicks == 2

AppStarted ==
    [main |-> "select", srv |-> "wait", quitMain |-> FALSE, quitSrv |-> FALSE,
     signalled |-> FALSE, errChan |-> <<>>, http |-> "serving", inflight |-> 0,
     mainT |-> 0, srvT |-> 0, pool |-> "open", result |-> "running"]

\* a CostSummary object, the last method called on it and what that returned
SummaryStart ==
    [obj |-> NewCostSummary(NewDatePeriod(Date(2025, 1, 0), Date(2025, 2, 0))),
     op |-> "NewCostSummary", out |-> 0]

----------------------------------------------------------------------------
(* Calls of the pure helpers: every call records its inputs and its result. *)

NoCall == [fn |-> "none", args |-> <<>>, out |-> <<>>]

\* instants from December 2024 to March 2025
CostTimes == Date(2024, 12, 0) .. (Date(2025, 4, 0) - 1)
CostPrices == {-100, 0, 100}
CostSubs ==
    { SetEndDate(NewSubscription(1, <<"a">>, price, 1, start, 0), end, 0) :
        price \in CostPrices, start \in CostTimes, end \in {NoTime} \cup CostTimes }

PageLimits == -2 .. (MaxLimit + 2)
PageOffsets == -2 .. 2

CallCalculateCostForPeriod ==
    /\ call.fn = "none"
    /\ \E s \in CostSubs, from \in CostTimes, to \in CostTimes :
        call' = [fn |-> "CalculateCostForPeriod", args |-> <<s, from, to>>,
                 out |-> CalculateCostForPeriod(s, from, to)]

CallValidatePagination ==
    /\ call.fn = "none"
    /\ \E limit \in PageLimits, offset \in PageOffsets :
        call' = [fn |-> "ValidatePagination", args |-> <<limit, offset>>,
                 out |-> ValidatePagination(limit, offset)]

\* instants a DatePeriod is built from: the first and the last month ParseMonthYear
\* accepts, and the instants around the turn from January to February 2025
PeriodTimes ==
    {Date(MinYear, 1, 0), Date(2025, 1, 0), Date(2025, 1, 1), Date(2025, 2, 0) - 1,
     Date(2025, 2, 0), Date(MaxYear, 12, TicksPerMonth - 1)}
Periods == { NewDatePeriod(from, to) : from \in PeriodTimes, to \in PeriodTimes }

\* a.Overlaps(b) together with b.Overlaps(a)
CallOverlaps ==
    /\ call.fn = "none"
    /\ \E a \in Periods, b \in Periods :
        call' = [fn |-> "Overlaps", args |-> <<a, b>>,
                 out |-> <<Overlaps(a, b), Overlaps(b, a)>>]

\* a period is constructed, its bounds are set again, and it is validated and measured
CallDatePeriod ==
    /\ call.fn = "none"
    /\ \E from \in PeriodTimes, to \in PeriodTimes, from2 \in PeriodTimes, to2 \in PeriodTimes :
        LET built == NewDatePeriod(from, to)
            dp == SetTo(SetFrom(built, from2), to2)
        IN  call' = [fn |-> "DatePeriod", args |-> <<from, to, from2, to2>>,
                     out |-> [built |-> built, dp |-> dp, err |-> DatePeriodValidate(dp),
                              duration |-> Duration(dp)]]

\* IsActive and IsExpired of one subscription at one date
CallIsActive ==
    /\ call.fn = "none"
    /\ \E s \in CostSubs, date \in CostTimes :
        call' = [fn |-> "IsActive", args |-> <<s, date>>,
                 out |-> <<IsActive(s, date), IsExpired(s, date)>>]

\* entities Validate is called on: each of its four checks passing or failing
ValidateSubs ==
    { SetEndDate(NewSubscription(1, name, price, user, start, 0), end, 0) :
        name \in {<<>>, <<"a">>}, price \in {-100, 0, 100}, user \in {NilUUID, 1},
        start \in {Date(2025, 1, 0), Date(2025, 2, 0)},
        end \in {NoTime, Date(2025, 1, 0) - 1, Date(2025, 1, 0), Date(2025, 3, 0) - 1} }

CallValidate ==
    /\ call.fn = "none"
    /\ \E s \in ValidateSubs :
        call' = [fn |-> "Validate", args |-> <<s>>, out |-> Validate(s)]

\* mappers.SubscriptionToResponse: the dates as the response carries them
SubscriptionToResponse(subscription) ==
    [id |-> subscription.id, serviceName |-> subscription.serviceName,
     price |-> subscription.price, userID |-> subscription.userID,
     startDate |-> FormatMonthYear(subscription.startDate),
     endDate |-> IF subscription.endDate # NoTime
                 THEN <<FormatMonthYear(subscription.endDate)>> ELSE <<>>,
     createdAt |-> subscription.createdAt, updatedAt |-> subscription.updatedAt]

\* seven-character month-year strings, the months 00..19 and the years 2000..2199,
\* and two strings whose month is not zero-padded
MonthYearStrings ==
    { <<m1, m2, Dash, 2, y2, y3, y4>> : m1 \in 0..1, m2 \in 0..9, y2 \in 0..1, y3 \in 0..9, y4 \in 0..9 }
    \cup { <<7, Dash, 2, 0, 2, 5>>, <<0, 0, 7, Dash, 2, 0, 2, 5>> }

\* a string is parsed and formatted again, as it is, through StartOfMonth and
\* through EndOfMonth, and as CreateSubscription's response reports it
CallRoundTrip ==
    /\ call.fn = "none"
    /\ \E s \in MonthYearStrings :
        LET parsed == ParseMonthYear(s)
            created == CreateOutcome(<<>>, <<"a">>, 100, 1, s, <<s>>, 1, 0)
        IN  call' = [fn |-> "RoundTrip", args |-> <<s>>,
                     out |-> IF parsed.err # NoErr
                             THEN [err |-> parsed.err, created |-> created.err]
                             ELSE [err |-> NoErr,
                                   plain |-> FormatMonthYear(parsed.t),
                                   start |-> FormatMonthYear(StartOfMonth(parsed.t)),
                                   end |-> FormatMonthYear(EndOfMonth(parsed.t)),
                                   created |-> created.err,
                                   response |-> SubscriptionToResponse(created.sub[1])]]

\* filters with each criterion present or absent; a serviceName can be a
\* pointer to the empty string
QueryFilters ==
    { [userID |-> u, serviceName |-> n, startDate |-> sd, endDate |-> ed] :
        u \in {<<>>, <<1>>}, n \in {<<>>, <<<<>>>>, <<<<"a">>>>},
        sd \in {<<>>, <<Date(2025, 1, 0)>>}, ed \in {<<>>, <<Date(2025, 3, 0) - 1>>} }

CallBuildQueries ==
    /\ call.fn = "none"
    /\ \E filter \in QueryFilters, limit \in {1, MaxLimit}, offset \in {0, 2} :
        call' = [fn |-> "BuildQueries", args |-> <<filter, limit, offset>>,
                 out |-> [filter |-> buildFilterQuery(filter, limit, offset),
                          count |-> buildCountQuery(filter),
                          total |-> totalCostQuery(filter,
                                        NewDatePeriod(Date(2025, 1, 0), Date(2025, 2, 0) - 1))]]

\* instants for a period and a period enclosing it: the starts of January to
\* April 2025 and an instant inside February
NestTimes ==
    {Date(2025, 1, 0), Date(2025, 2, 0), Date(2025, 2, 1), Date(2025, 3, 0), Date(2025, 4, 0)}
NestSubs ==
    { s \in { SetEndDate(NewSubscription(1, <<"a">>, 100, 1, start, 0), end, 0) :
                start \in NestTimes, end \in {NoTime} \cup NestTimes } :
        Validate(s) = NoErr }

\* the cost of one subscription over [from, to] and over an enclosing [from2, to2]
CallCostNestedPeriods ==
    /\ call.fn = "none"
    /\ \E s \in NestSubs, from \in NestTimes, to \in NestTimes,
          from2 \in NestTimes, to2 \in NestTimes :
        /\ from2 <= from /\ from <= to /\ to <= to2
        /\ call' = [fn |-> "CostNestedPeriods", args |-> <<s, from, to, from2, to2>>,
                    out |-> <<CalculateCostForPeriod(s, from, to),
                              CalculateCostForPeriod(s, from2, to2)>>]

\* one instant tested against two valid periods, and the periods against each other
CallContains ==
    /\ call.fn = "none"
    /\ \E a \in Periods, b \in Periods, d \in PeriodTimes :
        /\ DatePeriodValidate(a) = NoErr
        /\ DatePeriodValidate(b) = NoErr
        /\ call' = [fn |-> "Contains", args |-> <<a, b, d>>,
                    out |-> <<DatePeriodContains(a, d), DatePeriodContains(b, d),
                              Overlaps(a, b)>>]

\* parseIntQuery: an absent or non-numeric parameter (<<>>) gives the default
parseIntQuery(value, defaultValue) == IF value = <<>> THEN defaultValue ELSE value[1]

\* NewPaginationResponse; total is a pointer
NewPaginationResponse(limit, offset, total) ==
    [limit |-> limit, offset |-> offset, total |-> total,
     hasMore |-> IF total # <<>> THEN offset + limit < total[1] ELSE FALSE]

\* GetAllSubscriptions with no filter parameters, up to its repo.GetAll call:
\* the error, or the limit and offset handed to the query
GetAllSubscriptionsOutcome(limit, offset) ==
    LET v == ValidatePagination(limit, offset)
    IN  IF v.err # NoErr THEN [err |-> v.err, query |-> <<>>]
        ELSE [err |-> NoErr, query |-> <<[limit |-> v.limit, offset |-> v.offset]>>]

\* GetSubscriptionsByUser up to its repo.GetByUserID call
GetSubscriptionsByUserOutcome(userID, limit, offset) ==
    IF userID = NilUUID THEN [err |-> InvalidUserID, query |-> <<>>]
    ELSE GetAllSubscriptionsOutcome(limit, offset)

\* the handler's answer: the error handed to c.Error, or the pagination block
\* of the 200 response, together with what the query was given
ListResponse(o, limit, offset) ==
    IF o.err # NoErr THEN [err |-> o.err, query |-> <<>>, pagination |-> <<>>]
    ELSE [err |-> NoErr, query |-> o.query,
          pagination |-> <<NewPaginationResponse(limit, offset, <<>>)>>]

\* GET /subscriptions without filter parameters
GetSubscriptions(limitParam, offsetParam) ==
    LET limit == parseIntQuery(limitParam, DefaultLimit)
        offset == parseIntQuery(offsetParam, 0)
    IN  ListResponse(GetAllSubscriptionsOutcome(limit, offset), limit, offset)

\* GET /users/{user_id}/subscriptions; userID <<>> is a path value that is no uuid
GetUserSubscriptions(userID, limitParam, offsetParam) ==
    LET limit == parseIntQuery(limitParam, DefaultLimit)
        offset == parseIntQuery(offsetParam, 0)
    IN  IF userID = <<>> THEN [err |-> InvalidUserID, query |-> <<>>, pagination |-> <<>>]
        ELSE ListResponse(GetSubscriptionsByUserOutcome(userID[1], limit, offset), limit, offset)

LimitParams == {<<>>} \cup { <<l>> : l \in PageLimits }
OffsetParams == {<<>>} \cup { <<o>> : o \in PageOffsets }

CallGetSubscriptions ==
    /\ call.fn = "none"
    /\ \E l \in LimitParams, o \in OffsetParams :
        call' = [fn |-> "GetSubscriptions", args |-> <<l, o>>,
                 out |-> GetSubscriptions(l, o)]

CallGetUserSubscriptions ==
    /\ call.fn = "none"
    /\ \E u \in {<<>>, <<NilUUID>>, <<NilUUID + 1>>}, l \in LimitParams, o \in OffsetParams :
        call' = [fn |-> "GetUserSubscriptions", args |-> <<u, l, o>>,
                 out |-> GetUserSubscriptions(u, l, o)]

\* stored rows written at clock 0 or 1, and later readings of the clock
ScanRows ==
    { [id |-> 1, serviceName |-> <<"a">>, price |-> 100, userID |-> 1,
       startDate |-> Date(2025, 1, 0), endDate |-> e, createdAt |-> c, updatedAt |-> u] :
        e \in {NoTime, Date(2025, 2, 0)}, c \in 0..1, u \in 0..1 }
ScanClock == 2..3
SetterNames ==
    {"SetID", "SetServiceName", "SetPrice", "SetUserID", "SetStartDate", "SetEndDate",
     "SetCreatedAt", "SetUpdatedAt"}

\* one setter applied to s at clock t; the time-valued setters are given v
ApplySetter(name, s, v, t) ==
    CASE name = "SetID" -> SetID(s, s.id + 1)
      [] name = "SetServiceName" -> SetServiceName(s, <<"b">>, t)
      [] name = "SetPrice" -> SetPrice(s, s.price + 100, t)
      [] name = "SetUserID" -> SetUserID(s, s.userID + 1, t)
      [] name = "SetStartDate" -> SetStartDate(s, v, t)
      [] name = "SetEndDate" -> SetEndDate(s, v, t)
      [] name = "SetCreatedAt" -> SetCreatedAt(s, v)
      [] name = "SetUpdatedAt" -> SetUpdatedAt(s, v)

\* a stored row is loaded while uuid.New() would give freshID and the clock reads t
CallScanSubscription ==
    /\ call.fn = "none"
    /\ \E row \in ScanRows, t \in ScanClock :
        call' = [fn |-> "scanSubscription", args |-> <<row, row.id + 1, t>>,
                 out |-> scanSubscription(row, row.id + 1, t)]

CallSetter ==
    /\ call.fn = "none"
    /\ \E s \in ScanRows, name \in SetterNames, v \in {0, Date(2025, 3, 0)}, t \in ScanClock :
        call' = [fn |-> "Setter", args |-> <<s, name, v, t>>,
                 out |-> ApplySetter(name, s, v, t)]

ServiceIdle ==
    /\ table = <<>>
    /\ nextID = 1
    /\ now = 0
    /\ clients = {}
    /\ pc = <<>>
    /\ local = <<>>
    /\ ret = <<>>
    /\ app = AppStarted
    /\ costSummary = SummaryStart

InitFn == ServiceIdle /\ call = NoCall

NextFn ==
    /\ \/ CallCalculateCostForPeriod
       \/ CallValidatePagination
       \/ CallOverlaps
       \/ CallDatePeriod
       \/ CallIsActive
       \/ CallValidate
       \/ CallRoundTrip
       \/ CallBuildQueries
       \/ CallCostNestedPeriods
       \/ CallContains
       \/ CallGetSubscriptions
       \/ CallGetUserSubscriptions
       \/ CallScanSubscription
       \/ CallSetter
    /\ UNCHANGED <<table, nextID, now, pc, local, ret, clients, app, costSummary>>

SpecFn == InitFn /\ [][NextFn]_vars

----------------------------------------------------------------------------
(* Properties of the pure helpers *)

Max(a, b) == IF a >= b THEN a ELSE b
Min(a, b) == IF a <= b THEN a ELSE b
MonthIndex(t) == Year(t) * 12 + Month(t)

IsCostCall == call.fn = "CalculateCostForPeriod"
FirstOf(month, year) == Date(year, month, 0)
LastOf(month, year) == Date(year, month, TicksPerMonth - 1)
InMonth(t, month, year) == Year(t) = year /\ Month(t) = month

\* C1: when the subscription is active at from or at to, the cost is 0 if
\* max(startDate, from) is after min(endDate-or-to, to) and otherwise price times
\* the number of calendar months from the clipped start to the clipped end, both
\* included; a subscription started Jan-2025 with no endDate and price 100 costs
\* 300 over (Jan-2025, Mar-2025), 100 over (Feb-2025, Feb-2025) and 0 over a
\* period that lies entirely before its startDate.
C1_CostByMonths ==
    IsCostCall =>
        LET s == call.args[1]
            from == call.args[2]
            to == call.args[3]
            clippedStart == Max(s.startDate, from)
            clippedEnd == Min(IF s.endDate = NoTime THEN to ELSE s.endDate, to)
        IN  /\ (IsActive(s, from) \/ IsActive(s, to)) =>
                call.out = IF clippedStart > clippedEnd THEN 0
                           ELSE s.price * (MonthIndex(clippedEnd) - MonthIndex(clippedStart) + 1)
            /\ (s.startDate = FirstOf(1, 2025) /\ s.endDate = NoTime /\ s.price = 100) =>
                /\ (InMonth(from, 1, 2025) /\ InMonth(to, 3, 2025)) => call.out = 300
                /\ (InMonth(from, 2, 2025) /\ InMonth(to, 2, 2025) /\ from <= to) => call.out = 100
                /\ (from < s.startDate /\ to < s.startDate) => call.out = 0

C1_Witness ==
    /\ IsCostCall
    /\ call.args[1].startDate = FirstOf(1, 2025)
    /\ call.args[1].endDate = NoTime
    /\ call.args[1].price = 100
    /\ call.args[2] = FirstOf(1, 2025)
    /\ call.args[3] = LastOf(3, 2025)
    /\ call.out = 300

\* C2: the cost is 0 whenever the subscription is inactive at both from and to,
\* also when it is active strictly inside the period: startDate Feb-2025 and
\* endDate Feb-2025 over (Jan-2025, Mar-2025) costs 0.
C2_InactiveAtBothEndsIsZero ==
    IsCostCall =>
        LET s == call.args[1]
            from == call.args[2]
            to == call.args[3]
            activeAt(d) == d >= s.startDate /\ (s.endDate = NoTime \/ d <= s.endDate)
        IN  (~activeAt(from) /\ ~activeAt(to)) => call.out = 0

C2_Witness ==
    /\ IsCostCall
    /\ call.args[1].startDate = FirstOf(2, 2025)
    /\ call.args[1].endDate = LastOf(2, 2025)
    /\ call.args[1].price = 100
    /\ call.args[2] = FirstOf(1, 2025)
    /\ call.args[3] = LastOf(3, 2025)
    /\ call.out = 0

\* C10: ValidatePagination fails with InvalidPaginationParams iff limit < 0 or
\* offset < 0; otherwise it returns offset unchanged and the limit 20 for 0, 100
\* for anything above 100 and the limit itself otherwise, so an accepted limit
\* lies in 1..100.
C10_Pagination ==
    call.fn = "ValidatePagination" =>
        LET limit == call.args[1]
            offset == call.args[2]
            r == call.out
        IN  /\ (r.err # NoErr) <=> (limit < 0 \/ offset < 0)
            /\ (r.err # NoErr) => r.err = AppError("INVALID_PAGINATION_PARAMS")
            /\ (r.err = NoErr) =>
                /\ r.offset = offset
                /\ r.limit = (IF limit = 0 THEN 20 ELSE IF limit > 100 THEN 100 ELSE limit)
                /\ r.limit \in 1..100

C10_Witness ==
    /\ call.fn = "ValidatePagination"
    /\ call.args = <<101, 2>>
    /\ call.out = [limit |-> 100, offset |-> 2, err |-> NoErr]

----------------------------------------------------------------------------
(* The service as a state machine: clients call the service methods; a     *)
(* method whose repository write follows an earlier read takes two steps,  *)
(* so that the calls of other clients can fall between the two.            *)

NoRet == [op |-> "none", args |-> <<>>, err |-> NoErr, sub |-> <<>>, calls |-> <<>>, summary |-> <<>>]
NoLocal == [op |-> "none", args |-> <<>>, sub |-> <<>>, calls |-> <<>>]
Resp(op, args, err, sub, calls, summary) ==
    [op |-> op, args |-> args, err |-> err, sub |-> sub, calls |-> calls, summary |-> summary]

\* the inputs the clients draw from
EmptyStr == <<>>
NameA == <<"a">>
NameB == <<"b">>
Padded == <<" ", "a", " ">>
Blank == <<" ", " ">>
TooLong == Str("a", MaxServiceNameLen + 1)
PaddedLong == <<" ">> \o Str("a", MaxServiceNameLen)
DS(month, year) ==
    <<month \div 10, month % 10, Dash,
      year \div 1000, (year \div 100) % 10, (year \div 10) % 10, year % 10>>
Jan == DS(1, 2025)
Dec == DS(12, 2025)
BadMonth == DS(13, 2025)
User == NilUUID + 1

\* with several clients the input alphabet is narrowed and one identifier is used
Narrow == Cardinality(clients) > 1
IDLimit == IF Narrow THEN 1 ELSE MaxIDs
IDs == 0 .. IDLimit

CreateInputs ==
    IF Narrow THEN {<<Padded, 100, User, Jan, <<>>>>}
    ELSE ({Padded} \X {100, 200} \X {User} \X {Jan, Dec} \X {<<>>, <<EmptyStr>>, <<Jan>>, <<Dec>>})
         \cup ({Padded, Blank} \X {100, 0} \X {User, NilUUID} \X {Jan, BadMonth} \X {<<>>, <<BadMonth>>})
         \cup {<<EmptyStr, 100, User, Jan, <<>>>>, <<TooLong, 100, User, Jan, <<>>>>,
               <<PaddedLong, 100, User, Jan, <<>>>>, <<Padded, MaxPrice + 1, User, Jan, <<>>>>,
               <<Padded, 100, User, EmptyStr, <<>>>>}

Supplied(in) == Cardinality({i \in 1..Len(in) : in[i] # <<>>})
NoFields == <<<<>>, <<>>, <<>>, <<>>>>

UpdateInputs ==
    IF Narrow
    THEN {NoFields, <<<<>>, <<200>>, <<>>, <<>>>>, <<<<NameB>>, <<>>, <<>>, <<>>>>}
    ELSE {in \in {<<>>, <<Padded>>, <<NameB>>} \X {<<>>, <<100>>, <<200>>}
                 \X {<<>>, <<Jan>>, <<Dec>>} \X {<<>>, <<EmptyStr>>, <<Jan>>, <<Dec>>} :
            \/ Supplied(in) <= 1
            \/ Supplied(in) = 2 /\ in[1] # <<>> /\ in[2] # <<>>
            \/ Supplied(in) = 2 /\ in[3] # <<>> /\ in[4] # <<>>}
         \cup ({<<>>, <<Blank>>} \X {<<>>, <<0>>} \X {<<>>, <<BadMonth>>} \X {<<>>, <<BadMonth>>})
         \cup {<<<<EmptyStr>>, <<>>, <<>>, <<>>>>, <<<<TooLong>>, <<>>, <<>>, <<>>>>,
               <<<<>>, <<MaxPrice + 1>>, <<>>, <<>>>>, <<<<>>, <<>>, <<EmptyStr>>, <<>>>>,
               <<<<NameB>>, <<>>, <<BadMonth>>, <<>>>>}

CostInputs ==
    IF Narrow THEN {<<<<>>, <<>>, Jan, Dec>>}
    ELSE ({<<>>} \X {<<>>} \X {EmptyStr, Jan, Dec, BadMonth} \X {EmptyStr, Jan, Dec, BadMonth})
         \cup {<<<<User>>, <<>>, Jan, Dec>>, <<<<>>, <<NameA>>, Jan, Dec>>,
               <<<<>>, <<NameB>>, Jan, Dec>>, <<<<>>, <<EmptyStr>>, Jan, Dec>>}

Idle(p) == pc[p] = "idle" /\ ret[p] = NoRet

CreateSubscription(p) ==
    /\ Idle(p)
    /\ nextID <= IDLimit
    /\ \E in \in CreateInputs :
        LET o == CreateOutcome(table, in[1], in[2], in[3], in[4], in[5], nextID, now)
        IN  /\ table' = o.table
            /\ nextID' = IF o.err = NoErr THEN nextID + 1 ELSE nextID
            /\ ret' = [ret EXCEPT ![p] = Resp("CreateSubscription", in, o.err, o.sub, o.calls, <<>>)]
    /\ UNCHANGED <<now, pc, local, clients, call, app, costSummary>>

GetSubscriptionByID(p) ==
    /\ Idle(p)
    /\ \E id \in IDs :
        LET o == GetByIDOutcome(table, id, nextID, now)
        IN  ret' = [ret EXCEPT ![p] = Resp("GetSubscriptionByID", <<id>>, o.err, o.sub, o.calls, <<>>)]
    /\ UNCHANGED <<table, nextID, now, pc, local, clients, call, app, costSummary>>

UpdateSubscription(p) ==
    /\ Idle(p)
    /\ \E id \in IDs :
        \E in \in (IF id \in DOMAIN table THEN UpdateInputs ELSE {NoFields}) :
            LET o == UpdatePrepare(table, id, in[1], in[2], in[3], in[4], nextID, now)
            IN  IF o.write
                THEN /\ pc' = [pc EXCEPT ![p] = "update"]
                     /\ local' = [local EXCEPT ![p] =
                            [op |-> "UpdateSubscription", args |-> <<id>> \o in,
                             sub |-> o.sub, calls |-> o.calls]]
                     /\ UNCHANGED ret
                ELSE /\ ret' = [ret EXCEPT ![p] =
                            Resp("UpdateSubscription", <<id>> \o in, o.err, o.sub, o.calls, <<>>)]
                     /\ UNCHANGED <<pc, local>>
    /\ UNCHANGED <<table, nextID, now, clients, call, app, costSummary>>

UpdateWrite(p) ==
    /\ pc[p] = "update"
    /\ LET o == UpdateFinish(table, local[p].sub[1], local[p].calls)
       IN  /\ table' = o.table
           /\ ret' = [ret EXCEPT ![p] =
                    Resp("UpdateSubscription", local[p].args, o.err, o.sub, o.calls, <<>>)]
    /\ pc' = [pc EXCEPT ![p] = "idle"]
    /\ local' = [local EXCEPT ![p] = NoLocal]
    /\ UNCHANGED <<nextID, now, clients, call, app, costSummary>>

DeleteSubscription(p) ==
    /\ Idle(p)
    /\ \E id \in IDs :
        LET o == DeletePrepare(table, id)
        IN  IF o.write
            THEN /\ pc' = [pc EXCEPT ![p] = "delete"]
                 /\ local' = [local EXCEPT ![p] =
                        [op |-> "DeleteSubscription", args |-> <<id>>, sub |-> <<>>, calls |-> o.calls]]
                 /\ UNCHANGED ret
            ELSE /\ ret' = [ret EXCEPT ![p] =
                        Resp("DeleteSubscription", <<id>>, o.err, <<>>, o.calls, <<>>)]
                 /\ UNCHANGED <<pc, local>>
    /\ UNCHANGED <<table, nextID, now, clients, call, app, costSummary>>

DeleteWrite(p) ==
    /\ pc[p] = "delete"
    /\ LET o == DeleteFinish(table, local[p].args[1], local[p].calls)
       IN  /\ table' = o.table
           /\ ret' = [ret EXCEPT ![p] =
                    Resp("DeleteSubscription", local[p].args, o.err, <<>>, o.calls, <<>>)]
    /\ pc' = [pc EXCEPT ![p] = "idle"]
    /\ local' = [local EXCEPT ![p] = NoLocal]
    /\ UNCHANGED <<nextID, now, clients, call, app, costSummary>>

CalculateTotalCost(p) ==
    /\ Idle(p)
    /\ \E in \in CostInputs :
        LET o == CalculateTotalCostOutcome(table, in[1], in[2], in[3], in[4])
        IN  ret' = [ret EXCEPT ![p] =
                Resp("CalculateTotalCost", in, o.err, <<>>, o.calls, o.summary)]
    /\ UNCHANGED <<table, nextID, now, pc, local, clients, call, app, costSummary>>

\* the caller takes the response
Return(p) ==
    /\ ret[p] # NoRet
    /\ ret' = [ret EXCEPT ![p] = NoRet]
    /\ UNCHANGED <<table, nextID, now, pc, local, clients, call, app, costSummary>>

\* time passes
Tick ==
    /\ now < MaxNow
    /\ now' = now + 1
    /\ UNCHANGED <<table, nextID, pc, local, ret, clients, call, app, costSummary>>

InitWith(cs) ==
    /\ table = <<>>
    /\ nextID = 1
    /\ now = 0
    /\ clients = cs
    /\ pc = [p \in cs |-> "idle"]
    /\ local = [p \in cs |-> NoLocal]
    /\ ret = [p \in cs |-> NoRet]
    /\ call = NoCall
    /\ app = AppStarted
    /\ costSummary = SummaryStart

Init == InitWith({1})
InitConc == InitWith({1, 2})

Next ==
    \/ \E p \in clients : CreateSubscription(p)
    \/ \E p \in clients : GetSubscriptionByID(p)
    \/ \E p \in clients : UpdateSubscription(p)
    \/ \E p \in clients : UpdateWrite(p)
    \/ \E p \in clients : DeleteSubscription(p)
    \/ \E p \in clients : DeleteWrite(p)
    \/ \E p \in clients : CalculateTotalCost(p)
    \/ \E p \in clients : Return(p)
    \/ Tick

Spec == Init /\ [][Next]_vars
SpecConc == InitConc /\ [][Next]_vars

----------------------------------------------------------------------------
(* A failing database: any repository call may come back with the error of  *)
(* the driver. What each repository method returns then:                    *)

DatabaseError == AppError("DATABASE_ERROR")

RepoCreateFailed == DatabaseError
RepoGetByIDFailed == DatabaseError
RepoUpdateFailed == PlainError("update subscription: %w")
RepoDeleteFailed == PlainError("delete subscription: %w")
RepoExistsFailed == PlainError("check subscription existence: %w")
GetTotalCostForPeriodFailed == PlainError("get total cost for period: %w")

\* a write that is called again after it failed
FailedWriteRetried(calls, name) == Append(Append(calls, name), name)
\* the repository calls of an operation whose last call, name, failed
FailedCall(calls, name) == Append(calls, name)

\* CreateSubscription when repo.Create fails
CreateSubscriptionDown(p) ==
    /\ Idle(p)
    /\ nextID <= IDLimit
    /\ \E in \in CreateInputs :
        LET o == CreateOutcome(table, in[1], in[2], in[3], in[4], in[5], nextID, now)
        IN  /\ o.calls = <<"Create">>
            /\ ret' = [ret EXCEPT ![p] =
                    Resp("CreateSubscription", in, RepoCreateFailed, <<>>,
                         FailedCall(<<>>, "Create"), <<>>)]
    /\ UNCHANGED <<table, nextID, now, pc, local, clients, call, app, costSummary>>

\* GetSubscriptionByID when repo.GetByID fails
GetSubscriptionByIDDown(p) ==
    /\ Idle(p)
    /\ \E id \in IDs \ {NilUUID} :
        ret' = [ret EXCEPT ![p] =
            Resp("GetSubscriptionByID", <<id>>, RepoGetByIDFailed, <<>>,
                 FailedCall(<<>>, "GetByID"), <<>>)]
    /\ UNCHANGED <<table, nextID, now, pc, local, clients, call, app, costSummary>>

\* UpdateSubscription when its GetSubscriptionByID fails
UpdateSubscriptionDown(p) ==
    /\ Idle(p)
    /\ \E id \in IDs \ {NilUUID}, in \in UpdateInputs :
        ret' = [ret EXCEPT ![p] =
            Resp("UpdateSubscription", <<id>> \o in, RepoGetByIDFailed, <<>>,
                 FailedCall(<<>>, "GetByID"), <<>>)]
    /\ UNCHANGED <<table, nextID, now, pc, local, clients, call, app, costSummary>>

\* UpdateSubscription when repo.Update fails
UpdateWriteDown(p) ==
    /\ pc[p] = "update"
    /\ ret' = [ret EXCEPT ![p] =
            Resp("UpdateSubscription", local[p].args, RepoUpdateFailed, <<>>,
                 FailedCall(local[p].calls, "Update"), <<>>)]
    /\ pc' = [pc EXCEPT ![p] = "idle"]
    /\ local' = [local EXCEPT ![p] = NoLocal]
    /\ UNCHANGED <<table, nextID, now, clients, call, app, costSummary>>

\* DeleteSubscription when repo.Exists fails
DeleteSubscriptionDown(p) ==
    /\ Idle(p)
    /\ \E id \in IDs \ {NilUUID} :
        ret' = [ret EXCEPT ![p] =
            Resp("DeleteSubscription", <<id>>, RepoExistsFailed, <<>>,
                 FailedCall(<<>>, "Exists"), <<>>)]
    /\ UNCHANGED <<table, nextID, now, pc, local, clients, call, app, costSummary>>

\* DeleteSubscription when repo.Delete fails
DeleteWriteDown(p) ==
    /\ pc[p] = "delete"
    /\ ret' = [ret EXCEPT ![p] =
            Resp("DeleteSubscription", local[p].args, RepoDeleteFailed, <<>>,
                 FailedCall(local[p].calls, "Delete"), <<>>)]
    /\ pc' = [pc EXCEPT ![p] = "idle"]
    /\ local' = [local EXCEPT ![p] = NoLocal]
    /\ UNCHANGED <<table, nextID, now, clients, call, app, costSummary>>

\* CalculateTotalCost when repo.GetTotalCostForPeriod fails
CalculateTotalCostDown(p) ==
    /\ Idle(p)
    /\ \E in \in CostInputs :
        LET o == CalculateTotalCostOutcome(table, in[1], in[2], in[3], in[4])
        IN  /\ o.calls = <<"GetTotalCostForPeriod">>
            /\ ret' = [ret EXCEPT ![p] =
                    Resp("CalculateTotalCost", in, GetTotalCostForPeriodFailed, <<>>,
                         FailedCall(<<>>, "GetTotalCostForPeriod"), <<>>)]
    /\ UNCHANGED <<table, nextID, now, pc, local, clients, call, app, costSummary>>

NextFault ==
    \/ Next
    \/ \E p \in clients : CreateSubscriptionDown(p)
    \/ \E p \in clients : GetSubscriptionByIDDown(p)
    \/ \E p \in clients : UpdateSubscriptionDown(p)
    \/ \E p \in clients : UpdateWriteDown(p)
    \/ \E p \in clients : DeleteSubscriptionDown(p)
    \/ \E p \in clients : DeleteWriteDown(p)
    \/ \E p \in clients : CalculateTotalCostDown(p)

\* two clients over a database that may fail
SpecFault == InitConc /\ [][NextFault]_vars

----------------------------------------------------------------------------
(* The application's run and shutdown *)

AppRunning == app.result = "running"
ServiceVars == <<table, nextID, now, pc, local, ret, clients, call, costSummary>>

\* the HTTP server accepts a request
Accept ==
    /\ AppRunning
    /\ app.http = "serving"
    /\ app.inflight < MaxInflight
    /\ app' = [app EXCEPT !.inflight = @ + 1]
    /\ UNCHANGED ServiceVars

\* a request in flight is answered
Finish ==
    /\ AppRunning
    /\ app.inflight > 0
    /\ app' = [app EXCEPT !.inflight = @ - 1]
    /\ UNCHANGED ServiceVars

\* SIGINT or SIGTERM: signal.Notify hands it to both registered channels
Signal ==
    /\ AppRunning
    /\ ~app.signalled
    /\ app' = [app EXCEPT !.signalled = TRUE, !.quitMain = TRUE, !.quitSrv = TRUE]
    /\ UNCHANGED ServiceVars

\* startWithGracefulShutdown: sig := <-quit, then s.Shutdown() begins
SrvReceive ==
    /\ AppRunning
    /\ app.srv = "wait"
    /\ app.quitSrv
    /\ app' = [app EXCEPT !.srv = "shutdown", !.quitSrv = FALSE, !.http = "closing", !.srvT = 0]
    /\ UNCHANGED ServiceVars

\* Server.Shutdown of the server goroutine: no request is left in flight
SrvShutdownOK ==
    /\ AppRunning
    /\ app.srv = "shutdown"
    /\ app.inflight = 0
    /\ app' = [app EXCEPT !.srv = "returned"]
    /\ UNCHANGED ServiceVars

\* Server.Shutdown of the server goroutine: the timeout expires, Start returns
\* the error and Run's goroutine sends it on errChan
SrvShutdownTimeout ==
    /\ AppRunning
    /\ app.srv = "shutdown"
    /\ app.srvT = GraceTicks
    /\ app.inflight > 0
    /\ app' = [app EXCEPT !.srv = "returned", !.errChan = <<"deadline exceeded">>]
    /\ UNCHANGED ServiceVars

\* App.Run: case sig := <-quit, then a.shutdown calls Server.Shutdown
MainReceive ==
    /\ AppRunning
    /\ app.main = "select"
    /\ app.quitMain
    /\ app' = [app EXCEPT !.main = "shutdown", !.quitMain = FALSE, !.http = "closing", !.mainT = 0]
    /\ UNCHANGED ServiceVars

\* App.Run: case err := <-errChan, Run returns the error and main exits
MainReceiveErr ==
    /\ AppRunning
    /\ app.main = "select"
    /\ app.errChan # <<>>
    /\ app' = [app EXCEPT !.main = "returned", !.errChan = <<>>, !.result = "error"]
    /\ UNCHANGED ServiceVars

\* App.shutdown: Server.Shutdown returns nil
MainShutdownOK ==
    /\ AppRunning
    /\ app.main = "shutdown"
    /\ app.inflight = 0
    /\ app' = [app EXCEPT !.main = "close"]
    /\ UNCHANGED ServiceVars

\* App.shutdown: Server.Shutdown returns the timeout's error, shutdown returns
\* it, Run returns it and main exits
MainShutdownTimeout ==
    /\ AppRunning
    /\ app.main = "shutdown"
    /\ app.mainT = GraceTicks
    /\ app.inflight > 0
    /\ app' = [app EXCEPT !.main = "returned", !.result = "error"]
    /\ UNCHANGED ServiceVars

\* App.shutdown: Dependencies.Close closes the pool, Run returns nil
CloseDeps ==
    /\ AppRunning
    /\ app.main = "close"
    /\ app' = [app EXCEPT !.main = "returned", !.pool = "closed", !.result = "ok"]
    /\ UNCHANGED ServiceVars

\* the clock of the shutdown contexts advances
GraceTick ==
    /\ AppRunning
    /\ \/ app.main = "shutdown" /\ app.mainT < GraceTicks
       \/ app.srv = "shutdown" /\ app.srvT < GraceTicks
    /\ app' = [app EXCEPT
            !.mainT = IF app.main = "shutdown" /\ @ < GraceTicks THEN @ + 1 ELSE @,
            !.srvT = IF app.srv = "shutdown" /\ @ < GraceTicks THEN @ + 1 ELSE @]
    /\ UNCHANGED ServiceVars

InitApp == ServiceIdle /\ call = NoCall

NextApp ==
    \/ Accept
    \/ Finish
    \/ Signal
    \/ SrvReceive
    \/ SrvShutdownOK
    \/ SrvShutdownTimeout
    \/ MainReceive
    \/ MainReceiveErr
    \/ MainShutdownOK
    \/ MainShutdownTimeout
    \/ CloseDeps
    \/ GraceTick

SpecApp == InitApp /\ [][NextApp]_vars

----------------------------------------------------------------------------
(* HTTP boundary: the status the error-handling middleware answers with *)

\* apperror.getDefaultHTTPStatus: the status an AppError is built with
getDefaultHTTPStatus(code) ==
    CASE code = "NOT_FOUND" -> 404
      [] code \in {"INVALID_INPUT", "VALIDATION_FAILED"} -> 400
      [] code = "UNAUTHORIZED" -> 401
      [] code = "FORBIDDEN" -> 403
      [] code = "CONFLICT" -> 409
      [] code = "TOO_MANY_REQUESTS" -> 429
      [] code \in {"INTERNAL_ERROR", "DATABASE_ERROR", "EXTERNAL_SERVICE_ERROR"} -> 500
      [] code = "SERVICE_UNAVAILABLE" -> 503
      [] OTHER -> 500

\* middleware.ErrorHandler on the error a handler recorded with c.Error
ErrorHandler(err) ==
    IF err.kind = "AppError" THEN getDefaultHTTPStatus(err.code) ELSE 500

\* the status of the answer to GET, PUT or DELETE /subscriptions/{id}, from
\* what the service call returned
HandlerStatus(r) == IF r.err # NoErr THEN ErrorHandler(r.err) ELSE 200

----------------------------------------------------------------------------
(* A CostSummary object under its methods *)

\* subscriptions a summary can hold at once
MaxSubs == 2

SummaryTimes == {Date(2025, 1, 0), Date(2025, 2, 0), Date(2025, 3, 0) - 1, Date(2025, 4, 0) - 1}
SummarySubs ==
    { SetEndDate(NewSubscription(1, <<"a">>, price, 1, start, 0), end, 0) :
        price \in {100, 250}, start \in {Date(2025, 1, 0), Date(2025, 2, 0)},
        end \in {NoTime, Date(2025, 3, 0) - 1} }
SummaryPeriods == { NewDatePeriod(from, to) : from \in SummaryTimes, to \in SummaryTimes }
SummaryLists == {<<>>} \cup { <<s>> : s \in SummarySubs } \cup { <<s, s>> : s \in SummarySubs }

OtherVars == <<table, nextID, now, pc, local, ret, clients, call, app>>

CsAddSubscription ==
    /\ Len(costSummary.obj.subscriptions) < MaxSubs
    /\ \E s \in SummarySubs :
        costSummary' = [obj |-> AddSubscription(costSummary.obj, s),
                        op |-> "AddSubscription", out |-> 0]
    /\ UNCHANGED OtherVars

CsSetSubscriptions ==
    /\ \E subs \in SummaryLists :
        costSummary' = [obj |-> SetSubscriptions(costSummary.obj, subs),
                        op |-> "SetSubscriptions", out |-> 0]
    /\ UNCHANGED OtherVars

CsSetPeriod ==
    /\ \E period \in SummaryPeriods :
        costSummary' = [obj |-> SetPeriod(costSummary.obj, period), op |-> "SetPeriod", out |-> 0]
    /\ UNCHANGED OtherVars

\* Calculate stores the total and returns it
CsCalculate ==
    /\ costSummary' = [obj |-> Calculate(costSummary.obj), op |-> "Calculate",
                       out |-> Calculate(costSummary.obj).totalCost]
    /\ UNCHANGED OtherVars

InitSummary == ServiceIdle /\ call = NoCall

NextSummary ==
    \/ CsAddSubscription
    \/ CsSetSubscriptions
    \/ CsSetPeriod
    \/ CsCalculate

SpecSummary == InitSummary /\ [][NextSummary]_vars

----------------------------------------------------------------------------
(* Properties of the service *)

InCalls(name, calls) == \E i \in 1..Len(calls) : calls[i] = name

RECURSIVE RowsOf(_, _)
RowsOf(tbl, ids) ==
    IF ids = {} THEN <<>>
    ELSE LET i == CHOOSE x \in ids : \A y \in ids : x <= y
         IN  <<tbl[i]>> \o RowsOf(tbl, ids \ {i})

\* the step in which client p calls DeleteSubscription / UpdateSubscription
IsDeleteCall(p) == Idle(p) /\ (pc'[p] = "delete" \/ ret'[p].op = "DeleteSubscription")
DeleteArgs(p) == IF pc'[p] = "delete" THEN local'[p].args ELSE ret'[p].args
IsUpdateCall(p) == Idle(p) /\ (pc'[p] = "update" \/ ret'[p].op = "UpdateSubscription")
UpdateArgs(p) == IF pc'[p] = "update" THEN local'[p].args ELSE ret'[p].args

\* C3: with no user or service filter, the total CalculateTotalCost returns (the
\* aggregate GetTotalCostForPeriod) equals CostSummary.Calculate() over the same
\* stored subscriptions and the same period.
C3_AggregateEqualsCalculate ==
    \A p \in clients :
        LET r == ret[p]
        IN  (r.op = "CalculateTotalCost" /\ r.err = NoErr /\ r.args[1] = <<>> /\ r.args[2] = <<>>) =>
                r.summary[1].totalCost =
                    Calculate(SetSubscriptions(NewCostSummary(r.summary[1].period),
                                               RowsOf(table, DOMAIN table))).totalCost

\* C4: a DeleteSubscription call on a non-nil id that does not itself remove the
\* row fails with SubscriptionNotFound, never with an untyped error, whatever the
\* interleaving with another DeleteSubscription on the same id.
C4_LosingDeleteIsNotFound ==
    \A p \in clients :
        LET r == ret[p]
        IN  (r.op = "DeleteSubscription" /\ r.args[1] # NilUUID /\ r.err # NoErr) =>
                r.err = AppError("SUBSCRIPTION_NOT_FOUND")

\* C5: DeleteSubscription on a non-nil id that is not stored returns
\* SUBSCRIPTION_NOT_FOUND at once, without calling the repository's Delete, and
\* leaves the table as it was.
C5_DeleteAbsentIsNotFound ==
    [][\A p \in clients :
        (IsDeleteCall(p) /\ DeleteArgs(p)[1] # NilUUID /\ DeleteArgs(p)[1] \notin DOMAIN table) =>
            /\ pc'[p] = "idle"
            /\ ret'[p].op = "DeleteSubscription"
            /\ ret'[p].err = AppError("SUBSCRIPTION_NOT_FOUND")
            /\ ~InCalls("Delete", ret'[p].calls)
            /\ table' = table]_vars

C5_Witness ==
    \E p \in clients :
        /\ ret[p].op = "DeleteSubscription"
        /\ ret[p].args[1] # NilUUID
        /\ ret[p].args[1] \notin DOMAIN table
        /\ ret[p].err = AppError("SUBSCRIPTION_NOT_FOUND")
        /\ ret[p].calls = <<"Exists">>
        /\ DOMAIN table # {}

\* C6: UpdateSubscription on a stored id with serviceName, price, startDate and
\* endDate all omitted returns the entity exactly as stored, updatedAt included,
\* and writes nothing.
C6_UpdateNoFieldsIsNoOp ==
    [][\A p \in clients :
        (IsUpdateCall(p) /\ SubSeq(UpdateArgs(p), 2, 5) = NoFields
            /\ UpdateArgs(p)[1] \in DOMAIN table) =>
            /\ pc'[p] = "idle"
            /\ ret'[p].err = NoErr
            /\ ret'[p].sub = <<table[UpdateArgs(p)[1]]>>
            /\ ~InCalls("Update", ret'[p].calls)
            /\ table' = table]_vars

C6_Witness ==
    \E p \in clients :
        /\ ret[p].op = "UpdateSubscription"
        /\ SubSeq(ret[p].args, 2, 5) = NoFields
        /\ ret[p].args[1] \in DOMAIN table
        /\ ret[p].sub = <<table[ret[p].args[1]]>>
        /\ ret[p].sub[1].updatedAt < now
        /\ ret[p].calls = <<"GetByID">>

\* every supplied field of an update equals the stored value
SuppliedEqualsStored(in, row) ==
    /\ in[1] # <<>> => in[1][1] = row.serviceName
    /\ in[2] # <<>> => in[2][1] = row.price
    /\ in[3] # <<>> => in[3][1] = FormatMonthYear(row.startDate)
    /\ in[4] # <<>> => in[4][1] = (IF row.endDate = NoTime THEN EmptyStr
                                   ELSE FormatMonthYear(row.endDate))

\* C7: when every supplied field of UpdateSubscription equals the stored value,
\* the call returns the unmodified entity without calling the repository's Update.
C7_NoWriteWhenNothingChanges ==
    [][\A p \in clients :
        (IsUpdateCall(p) /\ UpdateArgs(p)[1] \in DOMAIN table
            /\ SuppliedEqualsStored(SubSeq(UpdateArgs(p), 2, 5), table[UpdateArgs(p)[1]])) =>
            /\ pc'[p] = "idle"
            /\ ret'[p].err = NoErr
            /\ ret'[p].sub = <<table[UpdateArgs(p)[1]]>>
            /\ ~InCalls("Update", ret'[p].calls)]_vars

\* C8: every stored subscription has a non-empty serviceName of at most 255
\* characters, a price in 1..1,000,000, a non-nil userID and an endDate that is
\* unset or not before its startDate.
C8_StoredSubscriptionsValid ==
    \A id \in DOMAIN table :
        /\ table[id].serviceName # <<>>
        /\ Len(table[id].serviceName) <= 255
        /\ table[id].price \in 1..1000000
        /\ table[id].userID # NilUUID
        /\ (table[id].endDate = NoTime \/ table[id].endDate >= table[id].startDate)

C8_Witness ==
    /\ Cardinality(DOMAIN table) = 2
    /\ \E id \in DOMAIN table : table[id].updatedAt > table[id].createdAt /\ table[id].endDate # NoTime
    /\ \E p \in clients :
        /\ ret[p].op = "UpdateSubscription"
        /\ ret[p].err = AppError("INVALID_SUBSCRIPTION_DATA")

\* a zero-padded "MM-YYYY" string of a month 01..12 and a year 2000..2100
WellFormed(str) ==
    /\ Len(str) = 7
    /\ str[3] = Dash
    /\ \A i \in {1, 2, 4, 5, 6, 7} : str[i] \in 0..9
    /\ (str[1] * 10 + str[2]) \in 1..12
    /\ (str[4] * 1000 + str[5] * 100 + str[6] * 10 + str[7]) \in 2000..2100
StrMonth(str) == str[1] * 10 + str[2]
StrYear(str) == str[4] * 1000 + str[5] * 100 + str[6] * 10 + str[7]
AllSpaces(str) == \A i \in 1..Len(str) : str[i] = " "

\* C9: CreateSubscription reports the first failing check in the order input
\* validation (serviceName, price, userID), startDate parse, endDate parse, date
\* range; on a failure it returns no subscription, calls no repository method and
\* leaves the table as it was; on success it has inserted exactly the returned
\* subscription, whose startDate is the first instant of the given month, whose
\* endDate (if given) is the last instant of its month and whose serviceName is
\* the given one without the surrounding blanks.
C9_CreateChecksThenPersists ==
    [][\A p \in clients :
        (Idle(p) /\ ret'[p].op = "CreateSubscription") =>
            LET r == ret'[p]
                name == r.args[1]
                price == r.args[2]
                user == r.args[3]
                startStr == r.args[4]
                endPtr == r.args[5]
                nameBad == AllSpaces(name) \/ Len(name) > 255
                priceBad == price < 1 \/ price > 1000000
                userBad == user = NilUUID
                inputBad == nameBad \/ priceBad \/ userBad
                startBad == ~WellFormed(startStr)
                endGiven == endPtr # <<>> /\ endPtr[1] # EmptyStr
                endBad == endGiven /\ ~WellFormed(endPtr[1])
                rangeBad == /\ endGiven /\ ~startBad /\ ~endBad
                            /\ StrYear(endPtr[1]) * 12 + StrMonth(endPtr[1])
                                < StrYear(startStr) * 12 + StrMonth(startStr)
            IN  /\ (r.err # NoErr) <=> (inputBad \/ startBad \/ endBad \/ rangeBad)
                /\ nameBad => r.err.code \in {"INVALID_SERVICE_NAME", "INVALID_INPUT"}
                /\ (~nameBad /\ priceBad) => r.err.code \in {"INVALID_PRICE", "INVALID_INPUT"}
                /\ (~nameBad /\ ~priceBad /\ userBad) => r.err.code = "INVALID_USER_ID"
                /\ (~inputBad /\ startBad) =>
                        r.err.code = "INVALID_DATE_FORMAT" /\ r.err.detail = startStr
                /\ (~inputBad /\ ~startBad /\ endBad) =>
                        r.err.code = "INVALID_DATE_FORMAT" /\ r.err.detail = endPtr[1]
                /\ (~inputBad /\ rangeBad) => r.err.code = "INVALID_DATE_RANGE"
                /\ (r.err # NoErr) => (r.sub = <<>> /\ r.calls = <<>> /\ table' = table)
                /\ (r.err = NoErr) =>
                    /\ r.calls = <<"Create">>
                    /\ r.sub # <<>>
                    /\ r.sub[1].id \notin DOMAIN table
                    /\ DOMAIN table' = DOMAIN table \cup {r.sub[1].id}
                    /\ table'[r.sub[1].id] = r.sub[1]
                    /\ \A i \in DOMAIN table : table'[i] = table[i]
                    /\ r.sub[1].startDate = FirstOf(StrMonth(startStr), StrYear(startStr))
                    /\ r.sub[1].endDate = (IF endGiven
                                           THEN LastOf(StrMonth(endPtr[1]), StrYear(endPtr[1]))
                                           ELSE NoTime)
                    /\ r.sub[1].serviceName # <<>>
                    /\ Head(r.sub[1].serviceName) # " "
                    /\ r.sub[1].serviceName[Len(r.sub[1].serviceName)] # " "
                    /\ \E i \in 0..Len(name), j \in 0..Len(name) :
                            name = Str(" ", i) \o r.sub[1].serviceName \o Str(" ", j)]_vars

C9_Witness ==
    \E p \in clients :
        /\ ret[p].op = "CreateSubscription"
        /\ ret[p].err = NoErr
        /\ ret[p].args[1] = Padded
        /\ ret[p].args[5] = <<Dec>>
        /\ ret[p].sub[1].serviceName = NameA
        /\ ret[p].sub[1].startDate = FirstOf(1, 2025)
        /\ ret[p].sub[1].endDate = LastOf(12, 2025)
        /\ table[ret[p].sub[1].id] = ret[p].sub[1]
        /\ Cardinality(DOMAIN table) = 2

\* the step in which client p gets the result of an UpdateSubscription call
UpdateReturns(p) == ret[p] = NoRet /\ ret'[p].op = "UpdateSubscription"

\* C11: a successful UpdateSubscription whose endDate is the empty string has
\* called the repository's Update and leaves the stored and the returned endDate
\* unset; one whose endDate is omitted leaves the stored endDate as it was and
\* returns it.
C11_EmptyEndDateClears ==
    [][\A p \in clients :
        (UpdateReturns(p) /\ ret'[p].err = NoErr) =>
            LET a == ret'[p].args
                id == a[1]
            IN  /\ a[5] = <<EmptyStr>> =>
                    /\ InCalls("Update", ret'[p].calls)
                    /\ table'[id].endDate = NoTime
                    /\ ret'[p].sub[1].endDate = NoTime
                /\ a[5] = <<>> =>
                    /\ table'[id].endDate = table[id].endDate
                    /\ ret'[p].sub[1].endDate = table[id].endDate]_vars

\* an update that clears the endDate of a row that has one is about to be written
C11_Witness ==
    \E p \in clients :
        /\ pc[p] = "update"
        /\ local[p].args[5] = <<EmptyStr>>
        /\ table[local[p].args[1]].endDate # NoTime
        /\ local[p].sub[1].endDate = NoTime

\* C12 as stated: CalculateTotalCost with an empty start or end date string
\* fails with InvalidInput without calling the repository.
C12_MissingDateIsInvalidInput ==
    \A p \in clients :
        LET r == ret[p]
        IN  (r.op = "CalculateTotalCost" /\ (r.args[3] = EmptyStr \/ r.args[4] = EmptyStr)) =>
                r.err = AppError("INVALID_INPUT") /\ r.calls = <<>>

\* C12: CalculateTotalCost with an empty start or end date string fails without
\* calling the repository and returns no summary; the failure is InvalidInput
\* when the other string is empty or a well-formed month, and InvalidDateFormat
\* naming the other string when that one is malformed.
C12_MissingDateFailsBeforePersistence ==
    \A p \in clients :
        LET r == ret[p]
            startStr == r.args[3]
            endStr == r.args[4]
            other == IF startStr = EmptyStr THEN endStr ELSE startStr
        IN  (r.op = "CalculateTotalCost" /\ (startStr = EmptyStr \/ endStr = EmptyStr)) =>
                /\ r.err # NoErr
                /\ r.calls = <<>>
                /\ r.summary = <<>>
                /\ (other = EmptyStr \/ WellFormed(other)) => r.err = AppError("INVALID_INPUT")
                /\ (other # EmptyStr /\ ~WellFormed(other)) =>
                        r.err.code = "INVALID_DATE_FORMAT" /\ r.err.detail = other

C12_Witness ==
    \E p \in clients :
        /\ ret[p].op = "CalculateTotalCost"
        /\ ret[p].args[3] = Jan
        /\ ret[p].args[4] = EmptyStr
        /\ ret[p].err = AppError("INVALID_INPUT")
        /\ ret[p].calls = <<>>
        /\ DOMAIN table # {}

\* C13: every error a service operation returns, also one that comes from a
\* failed repository call, is an AppError with a code and never an untyped error.
C13_ErrorsAreTyped ==
    \A p \in clients : ret[p].err.kind \in {"nil", "AppError"}

\* the repository writes among the calls of one service invocation
WriteCalls == {"Create", "Update", "Delete"}
Writes(calls) == {i \in 1..Len(calls) : calls[i] \in WriteCalls}

\* C14: one invocation of a service operation calls the repository's write
\* (Create, Update, Delete) at most once; when the write fails, the operation
\* returns that failure and no entity, the failed write being its last
\* repository call, and the table is as the write found it.
C14_NoRetry ==
    [][\A p \in clients :
        (ret[p] = NoRet /\ ret'[p] # NoRet) =>
            LET r == ret'[p]
            IN  /\ Cardinality(Writes(r.calls)) <= 1
                /\ (Writes(r.calls) # {} /\ r.err # NoErr) =>
                    /\ Writes(r.calls) = {Len(r.calls)}
                    /\ r.sub = <<>>
                    /\ table' = table
                    /\ r.err \in {RepoCreateFailed, RepoUpdateFailed, RepoDeleteFailed,
                                  PlainError("subscription not found")}]_vars

C14_Witness ==
    \E p \in clients :
        /\ ret[p].op = "UpdateSubscription"
        /\ ret[p].err = RepoUpdateFailed
        /\ ret[p].calls = <<"GetByID", "Update">>
        /\ ret[p].args[1] \in DOMAIN table

\* C15: after a shutdown signal the pool is closed only once the HTTP server
\* has shut down (it no longer accepts and nothing is in flight), and whenever
\* the application has ended after the signal, also with a server shutdown that
\* ran out of time, the pool is closed.
C15_ServerThenPoolAlways ==
    /\ app.pool = "closed" => (app.http = "closing" /\ app.inflight = 0)
    /\ (app.signalled /\ app.result # "running") => app.pool = "closed"

\* the part of C15 that holds: the pool is never closed before the server is down
C15_PoolClosedAfterServer ==
    app.pool = "closed" => (app.signalled /\ app.http = "closing" /\ app.inflight = 0)

\* C16: a GET, PUT or DELETE on /subscriptions/{id} with a non-nil id that is
\* not stored (the service returns SUBSCRIPTION_NOT_FOUND) is answered with
\* status 404.
C16_AbsentIdAnswers404 ==
    \A p \in clients :
        LET r == ret[p]
        IN  (/\ r.op \in {"GetSubscriptionByID", "UpdateSubscription", "DeleteSubscription"}
             /\ r.args[1] # NilUUID
             /\ r.err = AppError("SUBSCRIPTION_NOT_FOUND")) =>
                HandlerStatus(r) = 404

\* the sum, over the subscriptions at the given positions, of each one's cost for the period
RECURSIVE CostUpTo(_, _, _)
CostUpTo(subs, period, n) ==
    IF n = 0 THEN 0
    ELSE CostUpTo(subs, period, n - 1) + CalculateCostForPeriod(subs[n], period.from, period.to)

\* C17: right after Calculate the stored total equals the returned value, which
\* is the sum of CalculateCostForPeriod(period.from, period.to) over the held
\* subscriptions, and Calculate has changed neither the period nor the held
\* subscriptions; right after SetPeriod the stored total is 0.
C17_CostSummaryMachine ==
    [][/\ costSummary'.op = "Calculate" =>
            /\ costSummary'.obj.totalCost = costSummary'.out
            /\ costSummary'.out =
                    CostUpTo(costSummary.obj.subscriptions, costSummary.obj.period,
                             Len(costSummary.obj.subscriptions))
            /\ costSummary'.obj.period = costSummary.obj.period
            /\ costSummary'.obj.subscriptions = costSummary.obj.subscriptions
       /\ costSummary'.op = "SetPeriod" => costSummary'.obj.totalCost = 0]_vars

\* a total of two subscriptions was computed and the period then changed
C17_Witness ==
    /\ costSummary.op = "SetPeriod"
    /\ Len(costSummary.obj.subscriptions) = 2
    /\ costSummary.obj.totalCost = 0
    /\ Calculate(costSummary.obj).totalCost = 1050

\* C18: a.Overlaps(b) is true iff a.from < b.to and a.to > b.from, both strict,
\* so periods that only touch at one boundary instant do not overlap, and
\* a.Overlaps(b) equals b.Overlaps(a).
C18_OverlapsStrictSymmetric ==
    call.fn = "Overlaps" =>
        LET a == call.args[1]
            b == call.args[2]
        IN  /\ call.out[1] <=> (a.from < b.to /\ a.to > b.from)
            /\ (a.from <= a.to /\ b.from <= b.to /\ (a.to = b.from \/ b.to = a.from)) =>
                    ~call.out[1]
            /\ call.out[1] = call.out[2]

\* January 2025 and a period that starts at the instant January ends
C18_Witness ==
    /\ call.fn = "Overlaps"
    /\ call.args[1] = NewDatePeriod(FirstOf(1, 2025), FirstOf(2, 2025))
    /\ call.args[2] = NewDatePeriod(FirstOf(2, 2025), LastOf(12, 2100))
    /\ call.out = <<FALSE, FALSE>>

\* C19: the constructor and the setters keep the bounds they are given, in the
\* order given; Validate succeeds iff from <= to (from = to included) and fails
\* iff to < from; Duration is to - from, negative for reversed bounds.
C19_DatePeriodValidateDuration ==
    call.fn = "DatePeriod" =>
        LET r == call.out
        IN  /\ r.built = [from |-> call.args[1], to |-> call.args[2]]
            /\ r.dp = [from |-> call.args[3], to |-> call.args[4]]
            /\ (r.err = NoErr) <=> (r.dp.from <= r.dp.to)
            /\ (r.err # NoErr) <=> (r.dp.to < r.dp.from)
            /\ r.duration = r.dp.to - r.dp.from
            /\ (r.dp.to < r.dp.from) => r.duration < 0

\* reversed bounds, the widest apart the accepted months allow
C19_Witness ==
    /\ call.fn = "DatePeriod"
    /\ call.out.dp = [from |-> LastOf(12, 2100), to |-> FirstOf(1, 2000)]
    /\ call.out.built.from <= call.out.built.to
    /\ call.out.err # NoErr
    /\ call.out.duration < 0

\* C20: IsActive(date) is true iff date >= startDate and (endDate is unset or
\* date <= endDate); IsExpired(date) is false when endDate is unset and otherwise
\* true iff date > endDate; for a subscription whose endDate is unset or not
\* before its startDate no date is both, and every date at or after startDate is
\* exactly one of the two.
C20_ActiveExpired ==
    call.fn = "IsActive" =>
        LET s == call.args[1]
            date == call.args[2]
            active == call.out[1]
            expired == call.out[2]
        IN  /\ active <=> (date >= s.startDate /\ (s.endDate = NoTime \/ date <= s.endDate))
            /\ expired <=> (s.endDate # NoTime /\ date > s.endDate)
            /\ (s.endDate = NoTime \/ s.endDate >= s.startDate) =>
                /\ ~(active /\ expired)
                /\ (date >= s.startDate) => (active # expired)

\* the last instant of the subscription: active, not expired
C20_Witness ==
    /\ call.fn = "IsActive"
    /\ call.args[1].endDate = LastOf(2, 2025)
    /\ call.args[1].startDate = FirstOf(1, 2025)
    /\ call.args[2] = LastOf(2, 2025)
    /\ call.out = <<TRUE, FALSE>>

\* C21: Validate reports the first failing check in the order empty serviceName,
\* price <= 0, nil userID, endDate set and before startDate, each with a failure
\* of its own that differs from the other three, and succeeds iff none of the
\* four conditions holds.
C21_ValidateOrder ==
    call.fn = "Validate" =>
        LET s == call.args[1]
            emptyName == Len(s.serviceName) = 0
            badPrice == s.price <= 0
            nilUser == s.userID = NilUUID
            badRange == s.endDate # NoTime /\ s.endDate < s.startDate
            kind == IF emptyName THEN 1 ELSE IF badPrice THEN 2 ELSE IF nilUser THEN 3
                    ELSE IF badRange THEN 4 ELSE 0
            failures == <<PlainError("service name cannot be empty"),
                          PlainError("price must be greater than zero"),
                          PlainError("user ID cannot be empty"),
                          PlainError("end date cannot be before start date")>>
        IN  /\ (call.out = NoErr) <=> (~emptyName /\ ~badPrice /\ ~nilUser /\ ~badRange)
            /\ kind # 0 => call.out = failures[kind]
            /\ \A i \in 1..4, j \in 1..4 : i # j => failures[i] # failures[j]
            /\ \A i \in 1..4 : failures[i] # NoErr

\* all four checks fail and the first one is reported
C21_Witness ==
    /\ call.fn = "Validate"
    /\ call.args[1].serviceName = <<>>
    /\ call.args[1].price = 0
    /\ call.args[1].userID = NilUUID
    /\ call.args[1].endDate # NoTime
    /\ call.args[1].endDate < call.args[1].startDate
    /\ call.out = PlainError("service name cannot be empty")

\* C22: a zero-padded "MM-YYYY" string of a month 01..12 and a year 2000..2100
\* parses, and formatting the parsed instant, its StartOfMonth or its EndOfMonth
\* gives the string back; a subscription created with it as startDate and endDate
\* is reported with that same string for both.
C22_FormatParseRoundTrip ==
    call.fn = "RoundTrip" =>
        LET s == call.args[1]
            month == s[1] * 10 + s[2]
            year == s[4] * 1000 + s[5] * 100 + s[6] * 10 + s[7]
            padded == /\ Len(s) = 7
                      /\ s[3] = Dash
                      /\ \A i \in {1, 2, 4, 5, 6, 7} : s[i] \in 0..9
        IN  (padded /\ month \in 1..12 /\ year \in 2000..2100) =>
                /\ call.out.err = NoErr
                /\ call.out.plain = s
                /\ call.out.start = s
                /\ call.out.end = s
                /\ call.out.created = NoErr
                /\ call.out.response.startDate = s
                /\ call.out.response.endDate = <<s>>

\* December of the last accepted year: its EndOfMonth is computed from month 13
C22_Witness ==
    /\ call.fn = "RoundTrip"
    /\ call.args[1] = <<1, 2, Dash, 2, 1, 0, 0>>
    /\ call.out.err = NoErr
    /\ call.out.end = call.args[1]
    /\ call.out.response.endDate = <<call.args[1]>>

\* C23: an UpdateSubscription call leaves every other row as it was and, in the
\* row it names, never changes id, userID or createdAt and changes serviceName,
\* price, startDate or endDate only if that field was supplied; when it returns
\* an error the table is exactly as it was.
C23_UpdateFrame ==
    [][\A p \in clients :
        UpdateReturns(p) =>
            LET a == ret'[p].args
                id == a[1]
            IN  /\ DOMAIN table' = DOMAIN table
                /\ \A i \in DOMAIN table : i # id => table'[i] = table[i]
                /\ id \in DOMAIN table =>
                    /\ table'[id].id = table[id].id
                    /\ table'[id].userID = table[id].userID
                    /\ table'[id].createdAt = table[id].createdAt
                    /\ table'[id].serviceName # table[id].serviceName => a[2] # <<>>
                    /\ table'[id].price # table[id].price => a[3] # <<>>
                    /\ table'[id].startDate # table[id].startDate => a[4] # <<>>
                    /\ table'[id].endDate # table[id].endDate => a[5] # <<>>
                /\ ret'[p].err # NoErr => table' = table
                /\ id \notin DOMAIN table /\ id # NilUUID =>
                        ret'[p].err = AppError("SUBSCRIPTION_NOT_FOUND")]_vars

\* a later update of the price alone has been written, beside another row
C23_Witness ==
    \E p \in clients :
        /\ ret[p].op = "UpdateSubscription"
        /\ ret[p].err = NoErr
        /\ SubSeq(ret[p].args, 2, 5) = <<<<>>, <<200>>, <<>>, <<>>>>
        /\ ret[p].calls = <<"GetByID", "Update">>
        /\ table[ret[p].args[1]].price = 200
        /\ table[ret[p].args[1]].updatedAt > table[ret[p].args[1]].createdAt
        /\ Cardinality(DOMAIN table) = 2

\* an update that fails on its resulting dates, the row having been changed before
C23_WitnessError ==
    \E p \in clients :
        /\ ret[p].op = "UpdateSubscription"
        /\ ret[p].err = AppError("INVALID_SUBSCRIPTION_DATA")
        /\ ret[p].args[1] \in DOMAIN table

IsPlaceholder(tok) == tok.kind = "placeholder"
\* the numbers of a query's placeholders, in the order they appear
PlaceholderNumbers(query) ==
    LET phs == SelectSeq(query, IsPlaceholder)
    IN  [i \in 1..Len(phs) |-> phs[i].n]
\* placeholders $1..$n in order, n arguments, and nothing but fixed text between
Parameterized(q) ==
    /\ PlaceholderNumbers(q.query) = [i \in 1..Len(q.args) |-> i]
    /\ \A i \in 1..Len(q.query) : q.query[i].kind \in {"text", "placeholder"}

\* C24: for every combination of present and absent criteria, the queries of
\* buildFilterQuery, buildCountQuery and GetTotalCostForPeriod have the
\* placeholders $1..$n in order without gap or repeat, exactly n arguments in
\* placeholder order, and the given values only among the arguments;
\* buildFilterQuery ends with LIMIT and OFFSET bound to the last two arguments.
C24_QueriesParameterized ==
    call.fn = "BuildQueries" =>
        LET f == call.args[1]
            limit == call.args[2]
            offset == call.args[3]
            user == IF f.userID # <<>> THEN <<f.userID[1]>> ELSE <<>>
            name == IF f.serviceName # <<>> /\ Len(f.serviceName[1]) > 0
                    THEN << <<"%">> \o f.serviceName[1] \o <<"%">> >> ELSE <<>>
            start == IF f.startDate # <<>> THEN <<f.startDate[1]>> ELSE <<>>
            end == IF f.endDate # <<>> THEN <<f.endDate[1]>> ELSE <<>>
            fq == call.out.filter
            cq == call.out.count
            tq == call.out.total
            n == Len(fq.args)
        IN  /\ Parameterized(fq)
            /\ Parameterized(cq)
            /\ Parameterized(tq)
            /\ Len(cq.args) = Len(user) + Len(name) + Len(start) + Len(end)
            /\ cq.args = user \o name \o start \o end
            /\ n = Len(cq.args) + 2
            /\ SubSeq(fq.args, 1, n - 2) = cq.args
            /\ fq.args[n - 1] = limit /\ fq.args[n] = offset
            /\ SubSeq(fq.query, Len(fq.query) - 3, Len(fq.query)) =
                    <<Text(" LIMIT "), Placeholder(n - 1), Text(" OFFSET "), Placeholder(n)>>
            /\ Len(tq.args) = 2 + Len(user) + Len(name)
            /\ SubSeq(tq.args, 3, Len(tq.args)) = user \o name

\* all four criteria present: six arguments for the list, four for the count
C24_Witness ==
    /\ call.fn = "BuildQueries"
    /\ Len(call.out.filter.args) = 6
    /\ Len(call.out.count.args) = 4
    /\ Len(call.out.total.args) = 4
    /\ PlaceholderNumbers(call.out.filter.query) = <<1, 2, 3, 4, 5, 6>>

\* C25: when two UpdateSubscription calls on the same subscription, one changing
\* only the price and the other only the serviceName, have both succeeded, the
\* stored subscription carries both changes.
C25_ConcurrentUpdatesBothKept ==
    \A p \in clients, q \in clients :
        (/\ p # q
         /\ ret[p].op = "UpdateSubscription" /\ ret[p].err = NoErr
         /\ ret[q].op = "UpdateSubscription" /\ ret[q].err = NoErr
         /\ ret[p].args[1] = ret[q].args[1]
         /\ SubSeq(ret[p].args, 2, 5) = <<<<>>, <<200>>, <<>>, <<>>>>
         /\ SubSeq(ret[q].args, 2, 5) = <<<<NameB>>, <<>>, <<>>, <<>>>>) =>
            /\ ret[p].args[1] \in DOMAIN table
            /\ table[ret[p].args[1]].price = 200
            /\ table[ret[p].args[1]].serviceName = NameB


\* C26: in every interleaving of UpdateSubscription and DeleteSubscription on
\* one id, a row that is absent stays absent unless CreateSubscription inserts
\* it under a fresh id (an update never re-creates a deleted row), and an
\* update whose write finds the row gone changes nothing and returns an error.
C26_DeleteWinsOverUpdate ==
    [][/\ \A id \in DOMAIN table' \ DOMAIN table :
            /\ id = nextID
            /\ \E p \in clients : ret'[p].op = "CreateSubscription" /\ ret[p] = NoRet
       /\ \A p \in clients :
            (/\ pc[p] = "update" /\ pc'[p] = "idle"
             /\ local[p].sub[1].id \notin DOMAIN table) =>
                /\ ret'[p].op = "UpdateSubscription"
                /\ ret'[p].err # NoErr
                /\ table' = table]_vars

C26_Witness ==
    \E p \in clients, q \in clients :
        /\ ret[p].op = "DeleteSubscription" /\ ret[p].err = NoErr
        /\ ret[q].op = "UpdateSubscription"
        /\ ret[q].args[1] = ret[p].args[1]
        /\ ret[q].calls = <<"GetByID", "Update">>
        /\ ret[q].err = PlainError("subscription not found")
        /\ ret[p].args[1] \notin DOMAIN table


\* C27: for a valid subscription with price > 0, the cost over a period is
\* never negative and never more than the cost over an enclosing period.
C27_CostMonotone ==
    call.fn = "CostNestedPeriods" =>
        /\ call.out[1] >= 0
        /\ call.out[2] >= 0
        /\ call.out[1] <= call.out[2]


\* C28: whenever one instant is contained in two valid periods, the periods
\* overlap; so every valid period, one with from = to included, overlaps itself.
C28_ContainsImpliesOverlaps ==
    (call.fn = "Contains" /\ call.out[1] /\ call.out[2]) => call.out[3]


\* C29: every list request that succeeds reports in its pagination block the
\* limit the persistence query was given (after defaulting and clamping), and
\* has_more is offset + limit < total when total is known, false otherwise.
C29_ReportedLimitIsApplied ==
    (call.fn \in {"GetSubscriptions", "GetUserSubscriptions"} /\ call.out.err = NoErr) =>
        LET pg == call.out.pagination[1]
        IN  /\ pg.limit = call.out.query[1].limit
            /\ pg.hasMore = (pg.total # <<>> /\ pg.offset + pg.limit < pg.total[1])


\* the setters that stamp the current time
BumpingSetters == {"SetServiceName", "SetPrice", "SetUserID", "SetStartDate", "SetEndDate"}

\* C30: a subscription loaded from persistence carries exactly the stored
\* fields (id, endDate, createdAt and updatedAt included), whatever uuid.New()
\* and the clock gave during the rebuild; SetServiceName, SetPrice, SetUserID,
\* SetStartDate and SetEndDate set updatedAt to the current time, and SetID,
\* SetCreatedAt and SetUpdatedAt do not.
C30_ScanRestoresStamps ==
    /\ call.fn = "scanSubscription" => call.out = call.args[1]
    /\ call.fn = "Setter" =>
        LET s == call.args[1]
            name == call.args[2]
            v == call.args[3]
            t == call.args[4]
        IN  /\ name \in BumpingSetters => call.out.updatedAt = t
            /\ name \in {"SetID", "SetCreatedAt"} => call.out.updatedAt = s.updatedAt
            /\ name = "SetUpdatedAt" => call.out.updatedAt = v

C30_Witness ==
    /\ call.fn = "scanSubscription"
    /\ call.args[1].endDate # NoTime
    /\ call.args[1].updatedAt = 1 /\ call.args[1].createdAt = 0
    /\ call.args[3] = 3
    /\ call.out.id = 1 /\ call.out.updatedAt = 1 /\ call.out.createdAt = 0

====
